---- MODULE Spec2Model ----
(***************************************************************************)
(* Model of replayer.py: the BackgroundRecorder capture session (this      *)
(* part) and the GameplayPlayer replay engine.                             *)
(*                                                                         *)
(* The recorder is driven by three contexts, as start_background_recording *)
(* wires them: the mouse listener thread (on_mouse_move, on_mouse_click,   *)
(* on_mouse_scroll), the keyboard listener thread (on_key_press,           *)
(* on_key_release) and a control context calling start_recording and       *)
(* stop_recording.  The code takes no lock, so every read or write of a    *)
(* shared field is a step of its own; reads and writes of fields that only *)
(* the stepping thread writes are folded into the neighbouring step.       *)
(*                                                                         *)
(*   Spec     the three contexts interleave step by step                   *)
(*   SpecSeq  the same steps, but a handler runs to completion before the  *)
(*            next one begins (operations one at a time)                   *)
(*   SpecMoves  as SpecSeq, with pointer motion only and longer runs       *)
(*                                                                         *)
(* The replay engine reads one file and runs play() step by step: the      *)
(* load, the start delay, and for every event the clock reading, the sleep *)
(* and the dispatch to its handler, whose SendInput calls go to the port.  *)
(*                                                                         *)
(*   SpecPlay      one play() at a time                                    *)
(*   SpecPlayConc  play() calls on threads of their own, as the overlay    *)
(*                 starts them                                             *)
(*   SpecPlayLong  one play() of a recording of more than 200 events       *)
(*   SpecPlayAgain play() called more than once on one player              *)
(*                                                                         *)
(* Further specifications look at one part on its own:                     *)
(*                                                                         *)
(*   SpecHotkeys    the hotkey listener (F9, F10) with the two capture     *)
(*                  listeners, one handler at a time                       *)
(*   SpecRoundTrip  the recorder as in Spec, then load_replay on one of    *)
(*                  the files it wrote                                     *)
(*   SpecKeys       _key_to_string applied to one key                      *)
(*   SpecMotion     _handle_mouse_event applied to a run of motions        *)
(***************************************************************************)
EXTENDS Integers, Sequences, FiniteSets, TLC

\* ------------------------------------------------------------------ bounds
MaxNotifications == 2
MaxSessions == 2
MaxClock == 1
TicksPerSecond == 1

\* ------------------------------------------------------ Python Optional[T]
None == <<>>
Some(v) == <<v>>

\* ------------------------------------------------------------ python str
\* A str is the sequence of its characters, so that formatting and parsing
\* are computed and not assumed.
s_f9 == <<"f", "9">>
s_f10 == <<"f", "1", "0">>
s_shift == <<"s", "h", "i", "f", "t">>
s_shift_l == <<"s", "h", "i", "f", "t", "_", "l">>
s_ctrl == <<"c", "t", "r", "l">>
s_ctrl_l == <<"c", "t", "r", "l", "_", "l">>
s_alt == <<"a", "l", "t">>
s_alt_l == <<"a", "l", "t", "_", "l">>
s_None == <<"N", "o", "n", "e">>
s_KeyCodeOpen == <<"K", "e", "y", "C", "o", "d", "e", "(">>

DigitChars == <<"0", "1", "2", "3", "4", "5", "6", "7", "8", "9">>

RECURSIVE IntToStr(_)
IntToStr(n) ==
    IF n < 10 THEN <<DigitChars[n + 1]>>
    ELSE IntToStr(n \div 10) \o <<DigitChars[(n % 10) + 1]>>

LowerLetters ==
    <<"a", "b", "c", "d", "e", "f", "g", "h", "i", "j", "k", "l", "m",
      "n", "o", "p", "q", "r", "s", "t", "u", "v", "w", "x", "y", "z">>
UpperLetters ==
    <<"A", "B", "C", "D", "E", "F", "G", "H", "I", "J", "K", "L", "M",
      "N", "O", "P", "Q", "R", "S", "T", "U", "V", "W", "X", "Y", "Z">>

\* Non-Latin letters of the model's alphabet (Cyrillic, lower and upper).
CyrLower == {"cyr_a", "cyr_f"}
CyrUpper == {"CYR_A", "CYR_F"}

isalpha(c) ==
    \/ \E i \in 1..26 : c = LowerLetters[i] \/ c = UpperLetters[i]
    \/ c \in CyrLower \cup CyrUpper

\* chr(vk).lower() for 65 <= vk <= 90
chr_lower(vk) == LowerLetters[vk - 64]

\* ------------------------------------------------------------- pynput keys
\* pynput hands a callback a Key (special key), a KeyCode (char and vk) or
\* None (unknown key).
KeyEnum(name) == [cls |-> "Key", name |-> name, char |-> None, vk |-> None]
KeyCode(char, vk) == [cls |-> "KeyCode", name |-> None, char |-> char, vk |-> vk]
KeyNone == [cls |-> "NoneType", name |-> None, char |-> None, vk |-> None]

Key_f9 == KeyEnum(s_f9)
Key_f10 == KeyEnum(s_f10)
Key_shift == KeyEnum(s_shift)
Key_ctrl == KeyEnum(s_ctrl)
Key_alt == KeyEnum(s_alt)

russian_to_english ==
    [v \in 192..223 |->
        IF v <= 217 THEN <<LowerLetters[v - 191]>>
        ELSE CASE v = 218 -> <<"[">>
               [] v = 219 -> <<"]">>
               [] v = 220 -> <<"backslash">>
               [] v = 221 -> <<";">>
               [] v = 222 -> <<"apostrophe">>
               [] v = 223 -> <<"backtick">>]

\* Variant of FallbackToken that writes the code in two digits at most.
FallbackToken_two_digits(vk) == s_KeyCodeOpen \o IntToStr(vk % 100) \o <<")">>

FallbackToken(vk) == s_KeyCodeOpen \o IntToStr(vk) \o <<")">>

_key_to_string(key) ==
    IF key.cls = "KeyCode" THEN
        IF key.char # None /\ isalpha(key.char[1]) /\ 65 <= key.vk[1] /\ key.vk[1] <= 90
        THEN <<chr_lower(key.vk[1])>>
        ELSE IF key.char # None /\ isalpha(key.char[1])
                /\ key.vk[1] >= 192 /\ key.vk[1] <= 255
        THEN IF key.vk[1] \in DOMAIN russian_to_english
             THEN russian_to_english[key.vk[1]]
             ELSE FallbackToken(key.vk[1])
        ELSE IF key.char # None THEN <<key.char[1]>>
        ELSE FallbackToken(key.vk[1])
    ELSE IF key.cls = "Key" THEN
        IF key = Key_shift THEN s_shift_l
        ELSE IF key = Key_ctrl THEN s_ctrl_l
        ELSE IF key = Key_alt THEN s_alt_l
        ELSE key.name
    ELSE s_None

\* ------------------------------------------------------------ event model
MouseEvent(type, button, pressed, dx, dy, timestamp) ==
    [type |-> type, x |-> None, y |-> None, button |-> button,
     pressed |-> pressed, dx |-> dx, dy |-> dy, timestamp |-> timestamp]

KeyboardEvent(type, key, pressed, timestamp) ==
    [type |-> type, key |-> key, pressed |-> pressed, timestamp |-> timestamp]

\* ------------------------------------------------------ notification inputs
Positions == {<<0, 0>>, <<1, 0>>, <<1, 1>>}
Buttons == {"left"}
ScrollSteps == {<<0, 1>>}
Keys == {Key_f9, Key_f10, Key_shift}

VARIABLES
    recording,            \* self.recording
    mouse_events,         \* self.mouse_events
    keyboard_events,      \* self.keyboard_events
    start_time,           \* self.start_time (perf_counter at start)
    filename,             \* self.filename
    last_mouse_position,  \* self.last_mouse_position
    total_duration,       \* self.total_duration
    clock,                \* the latest reading of time.perf_counter(), in ticks
    store,                \* the files written to routes_out, in write order
    ctl,                  \* control context: start_recording / stop_recording
    mth,                  \* mouse listener thread
    kth,                  \* keyboard listener thread
    hist                  \* history of the run (not program state):
                          \*   delivered  notifications delivered so far
                          \*   sessions   recordings started so far
                          \*   observed   pointer positions notified to the
                          \*              current session, in order
                          \*   filtered   a control key was notified while
                          \*              recording
                          \*   t0         clock read by the last start_recording
                          \*   tstop      clock read by the last stop_recording
                          \*   at_stop    the two sequences as they were when the
                          \*              stop_recording in progress set
                          \*              recording = False

VARIABLES
    disk,                 \* the content of the file at GameplayPlayer.replay_file
    players,              \* the GameplayPlayer objects, each with the frame of
                          \* its play() call
    port,                 \* the SendInput calls made so far, in order
    console,              \* the warnings and errors printed so far, in order
    stop_signal,          \* an external request to stop the replay was made
    probe                 \* the calls made to one function on its own, and
                          \* what they returned (not program state)

fields == <<recording, mouse_events, keyboard_events, start_time, filename,
            last_mouse_position, total_duration>>
env == <<clock>>
replay == <<disk, players, port, console, stop_signal, probe>>

\* datetime.now() at one-second resolution: the wall clock and the monotonic
\* clock run at the same rate
WallSecond(now) == now \div TicksPerSecond
vars == <<recording, mouse_events, keyboard_events, start_time, filename,
          last_mouse_position, total_duration, clock, store,
          ctl, mth, kth, hist, disk, players, port, console, stop_signal,
          probe>>

\* ------------------------------------------------------------ thread frames
NoData == [mouse_events |-> <<>>, keyboard_events |-> <<>>,
           mouse_events_count |-> 0, keyboard_events_count |-> 0]
\* op: the call in progress; between calls, the call that last returned at
\* its guard ("none" after a call that did its work).  t_call: the clock when
\* the call in progress was made.
CtlIdle(op) == [pc |-> "idle", op |-> op, data |-> NoData, t_call |-> 0]
NoArg == [pos |-> <<0, 0>>, button |-> None, pressed |-> None,
          dx |-> None, dy |-> None]
MthIdle == [pc |-> "idle", cb |-> "none", arg |-> NoArg,
            now |-> 0, timestamp |-> 0, dx |-> 0, dy |-> 0]
KthIdle == [pc |-> "idle", cb |-> "none", key |-> KeyNone,
            now |-> 0, timestamp |-> 0]

\* BackgroundRecorder.__init__
Init ==
    /\ recording = FALSE
    /\ mouse_events = <<>>
    /\ keyboard_events = <<>>
    /\ start_time = None
    /\ filename = None
    /\ last_mouse_position = None
    /\ total_duration = 0
    /\ clock = 0
    /\ store = <<>>
    /\ ctl = CtlIdle("none")
    /\ mth = MthIdle
    /\ kth = KthIdle
    /\ hist = [delivered |-> 0, sessions |-> 0, observed |-> <<>>,
               filtered |-> FALSE, t0 |-> 0, tstop |-> 0,
               at_stop |-> <<<<>>, <<>>>>]
    /\ disk = [kind |-> "absent"]
    /\ players = <<>>
    /\ port = <<>>
    /\ console = <<>>
    /\ stop_signal = FALSE
    /\ probe = <<>>

\* --------------------------------------------------------------- the clocks
\* time.perf_counter(): a reading is never below an earlier reading.  Time
\* passes unobserved between readings, so the clock advances when it is read.
Readings == clock..MaxClock

\* ------------------------------------------------- control: start_recording
\* Variant of start_recording_252 without the guard "if self.recording: return".
start_recording_252_unguarded ==
    /\ ctl.pc = "idle"
    /\ hist.sessions < MaxSessions
    /\ mouse_events' = <<>>
    /\ ctl' = [CtlIdle("start_recording") EXCEPT !.pc = "L256", !.t_call = clock]
    /\ UNCHANGED <<recording, keyboard_events, start_time, filename,
                   last_mouse_position, total_duration, hist, env, store, mth, kth>>
    /\ UNCHANGED replay

\* lines 252-255: the guard, then mouse_events.clear()
start_recording_252 ==
    /\ ctl.pc = "idle"
    /\ IF recording
       THEN /\ ctl' = CtlIdle("start_recording")
            /\ UNCHANGED <<fields, hist>>
       ELSE /\ hist.sessions < MaxSessions
            /\ mouse_events' = <<>>
            /\ ctl' = [CtlIdle("start_recording") EXCEPT !.pc = "L256", !.t_call = clock]
            /\ UNCHANGED <<recording, keyboard_events, start_time, filename,
                           last_mouse_position, total_duration, hist>>
    /\ UNCHANGED <<env, store, mth, kth>>
    /\ UNCHANGED replay

\* Variant of start_recording_256 that leaves the key sequence as it is.
start_recording_256_keep ==
    /\ ctl.pc = "L256"
    /\ ctl' = [ctl EXCEPT !.pc = "L257"]
    /\ UNCHANGED <<fields, env, store, mth, kth, hist>>
    /\ UNCHANGED replay

\* line 256: keyboard_events.clear()
start_recording_256 ==
    /\ ctl.pc = "L256"
    /\ keyboard_events' = <<>>
    /\ ctl' = [ctl EXCEPT !.pc = "L257"]
    /\ UNCHANGED <<recording, mouse_events, start_time, filename,
                   last_mouse_position, total_duration, env, store, mth, kth, hist>>
    /\ UNCHANGED replay

\* line 257: start_time = time.perf_counter()
start_recording_257 ==
    /\ ctl.pc = "L257"
    /\ \E now \in Readings :
         /\ clock' = now
         /\ start_time' = Some(now)
         /\ hist' = [hist EXCEPT !.t0 = now]
    /\ ctl' = [ctl EXCEPT !.pc = "L259"]
    /\ UNCHANGED <<recording, mouse_events, keyboard_events, filename,
                   last_mouse_position, total_duration, store, mth, kth>>
    /\ UNCHANGED replay

\* lines 258-261: the filename from the wall clock, one-second resolution
start_recording_259 ==
    /\ ctl.pc = "L259"
    /\ \E now \in Readings :
         /\ clock' = now
         /\ filename' = Some(WallSecond(now))
    /\ ctl' = [ctl EXCEPT !.pc = "L262"]
    /\ UNCHANGED <<recording, mouse_events, keyboard_events, start_time,
                   last_mouse_position, total_duration, store, mth, kth, hist>>
    /\ UNCHANGED replay

\* line 262: recording = True
start_recording_262 ==
    /\ ctl.pc = "L262"
    /\ recording' = TRUE
    /\ ctl' = [ctl EXCEPT !.pc = "L263"]
    /\ hist' = [hist EXCEPT !.sessions = @ + 1, !.observed = <<>>]
    /\ UNCHANGED <<mouse_events, keyboard_events, start_time, filename,
                   last_mouse_position, total_duration, env, store, mth, kth>>
    /\ UNCHANGED replay

\* Variant of start_recording_263 that leaves the motion baseline as it is.
start_recording_263_keep ==
    /\ ctl.pc = "L263"
    /\ ctl' = CtlIdle("none")
    /\ UNCHANGED <<fields, env, store, mth, kth, hist>>
    /\ UNCHANGED replay

\* line 263: last_mouse_position = None, and return
start_recording_263 ==
    /\ ctl.pc = "L263"
    /\ last_mouse_position' = None
    /\ ctl' = CtlIdle("none")
    /\ UNCHANGED <<recording, mouse_events, keyboard_events, start_time,
                   filename, total_duration, env, store, mth, kth, hist>>
    /\ UNCHANGED replay

\* -------------------------------------------------- control: stop_recording
\* lines 266-269: the guard, then recording = False
stop_recording_266 ==
    /\ ctl.pc = "idle"
    /\ IF ~recording
       THEN /\ ctl' = CtlIdle("stop_recording")
            /\ UNCHANGED <<recording, hist>>
       ELSE /\ recording' = FALSE
            /\ ctl' = [CtlIdle("stop_recording") EXCEPT !.pc = "L270"]
            /\ hist' = [hist EXCEPT !.at_stop = <<mouse_events, keyboard_events>>]
    /\ UNCHANGED <<mouse_events, keyboard_events, start_time, filename,
                   last_mouse_position, total_duration, env, store, mth, kth>>
    /\ UNCHANGED replay

\* Variant of stop_recording_270 that takes the duration from the timestamp
\* of the last recorded event.
stop_recording_270_last_event ==
    /\ ctl.pc = "L270"
    /\ \E now \in Readings :
         /\ clock' = now
         /\ total_duration' =
              LET last(events) == IF events = <<>> THEN 0
                                  ELSE events[Len(events)].timestamp
                  m == last(mouse_events)
                  k == last(keyboard_events)
              IN  IF m >= k THEN m ELSE k
         /\ hist' = [hist EXCEPT !.tstop = now]
    /\ ctl' = [ctl EXCEPT !.pc = "L285"]
    /\ UNCHANGED <<recording, mouse_events, keyboard_events, start_time,
                   filename, last_mouse_position, store, mth, kth>>
    /\ UNCHANGED replay

\* line 270: total_duration = time.perf_counter() - self.start_time
stop_recording_270 ==
    /\ ctl.pc = "L270"
    /\ \E now \in Readings :
         /\ clock' = now
         /\ total_duration' = now - start_time[1]
         /\ hist' = [hist EXCEPT !.tstop = now]
    /\ ctl' = [ctl EXCEPT !.pc = "L285"]
    /\ UNCHANGED <<recording, mouse_events, keyboard_events, start_time,
                   filename, last_mouse_position, store, mth, kth>>
    /\ UNCHANGED replay

\* ------------------------------------------------- control: save_recording
\* Variant of save_recording_285 that leaves the last pointer event out of the
\* document.
save_recording_285_drop_last ==
    /\ ctl.pc = "L285"
    /\ ctl' = [ctl EXCEPT !.pc = "L286",
                          !.data.mouse_events =
                              SubSeq(mouse_events, 1, Len(mouse_events) - 1)]
    /\ UNCHANGED <<fields, env, store, mth, kth, hist>>
    /\ UNCHANGED replay

\* line 285: the pointer events are copied into the document
save_recording_285 ==
    /\ ctl.pc = "L285"
    /\ ctl' = [ctl EXCEPT !.pc = "L286", !.data.mouse_events = mouse_events]
    /\ UNCHANGED <<fields, env, store, mth, kth, hist>>
    /\ UNCHANGED replay

\* line 286: the key events are copied into the document
save_recording_286 ==
    /\ ctl.pc = "L286"
    /\ ctl' = [ctl EXCEPT !.pc = "L290", !.data.keyboard_events = keyboard_events]
    /\ UNCHANGED <<fields, env, store, mth, kth, hist>>
    /\ UNCHANGED replay

\* line 290: metadata.mouse_events_count = len(self.mouse_events)
save_recording_290 ==
    /\ ctl.pc = "L290"
    /\ ctl' = [ctl EXCEPT !.pc = "L291",
                          !.data.mouse_events_count = Len(mouse_events)]
    /\ UNCHANGED <<fields, env, store, mth, kth, hist>>
    /\ UNCHANGED replay

\* line 291: metadata.keyboard_events_count = len(self.keyboard_events)
save_recording_291 ==
    /\ ctl.pc = "L291"
    /\ ctl' = [ctl EXCEPT !.pc = "L296",
                          !.data.keyboard_events_count = Len(keyboard_events)]
    /\ UNCHANGED <<fields, env, store, mth, kth, hist>>
    /\ UNCHANGED replay

\* lines 296-299: json.dump to routes_out/<filename>; stop_recording returns
\* (what follows in stop_recording only prints)
FileOf(name, data, duration) ==
    [name |-> name,
     mouse_events |-> data.mouse_events,
     keyboard_events |-> data.keyboard_events,
     total_duration |-> duration,
     metadata |-> [mouse_events_count |-> data.mouse_events_count,
                   keyboard_events_count |-> data.keyboard_events_count,
                   recording_mode |-> "relative_mouse"]]

save_recording_296 ==
    /\ ctl.pc = "L296"
    /\ store' = Append(store, FileOf(filename[1], ctl.data, total_duration))
    /\ ctl' = CtlIdle("none")
    /\ hist' = [hist EXCEPT !.at_stop = <<<<>>, <<>>>>]
    /\ UNCHANGED <<fields, env, mth, kth>>
    /\ UNCHANGED replay

CtlStep ==
    \/ start_recording_252
    \/ start_recording_256
    \/ start_recording_257
    \/ start_recording_259
    \/ start_recording_262
    \/ start_recording_263
    \/ stop_recording_266
    \/ stop_recording_270
    \/ save_recording_285
    \/ save_recording_286
    \/ save_recording_290
    \/ save_recording_291
    \/ save_recording_296

\* ---------------------------------------------------- mouse listener thread
\* line 302: on_mouse_move(x, y) is called; if not self.recording: return
on_mouse_move_302_upto(limit) ==
    /\ mth.pc = "idle"
    /\ hist.delivered < limit
    /\ \E pos \in Positions :
         IF ~recording
         THEN /\ mth' = MthIdle
              /\ hist' = [hist EXCEPT !.delivered = @ + 1]
         ELSE /\ mth' = [MthIdle EXCEPT !.pc = "clock", !.cb = "move",
                                        !.arg.pos = pos]
              /\ hist' = [hist EXCEPT !.delivered = @ + 1,
                                      !.observed = Append(@, pos)]
    /\ UNCHANGED <<fields, env, store, ctl, kth>>
    /\ UNCHANGED replay

on_mouse_move_302 == on_mouse_move_302_upto(MaxNotifications)

\* Variant of on_mouse_click_323 whose guard tests whether a recording was
\* ever started (start_time) instead of the recording flag.
on_mouse_click_323_started ==
    /\ mth.pc = "idle"
    /\ hist.delivered < MaxNotifications
    /\ \E button \in Buttons, pressed \in BOOLEAN :
         mth' = IF start_time = None THEN MthIdle
                ELSE [MthIdle EXCEPT !.pc = "clock", !.cb = "click",
                                     !.arg.button = Some(button),
                                     !.arg.pressed = Some(pressed)]
    /\ hist' = [hist EXCEPT !.delivered = @ + 1]
    /\ UNCHANGED <<fields, env, store, ctl, kth>>
    /\ UNCHANGED replay

\* line 323: on_mouse_click(x, y, button, pressed) is called; the guard
on_mouse_click_323 ==
    /\ mth.pc = "idle"
    /\ hist.delivered < MaxNotifications
    /\ \E button \in Buttons, pressed \in BOOLEAN :
         mth' = IF ~recording THEN MthIdle
                ELSE [MthIdle EXCEPT !.pc = "clock", !.cb = "click",
                                     !.arg.button = Some(button),
                                     !.arg.pressed = Some(pressed)]
    /\ hist' = [hist EXCEPT !.delivered = @ + 1]
    /\ UNCHANGED <<fields, env, store, ctl, kth>>
    /\ UNCHANGED replay

\* line 335: on_mouse_scroll(x, y, dx, dy) is called; the guard
on_mouse_scroll_335 ==
    /\ mth.pc = "idle"
    /\ hist.delivered < MaxNotifications
    /\ \E d \in ScrollSteps :
         mth' = IF ~recording THEN MthIdle
                ELSE [MthIdle EXCEPT !.pc = "clock", !.cb = "scroll",
                                     !.arg.dx = Some(d[1]), !.arg.dy = Some(d[2])]
    /\ hist' = [hist EXCEPT !.delivered = @ + 1]
    /\ UNCHANGED <<fields, env, store, ctl, kth>>
    /\ UNCHANGED replay

\* lines 305, 325, 337: time.perf_counter() is evaluated first ...
mouse_timestamp_clock ==
    /\ mth.pc = "clock"
    /\ \E now \in Readings :
         /\ clock' = now
         /\ mth' = [mth EXCEPT !.pc = "t0", !.now = now]
    /\ UNCHANGED <<fields, store, ctl, kth, hist>>
    /\ UNCHANGED replay

\* ... and self.start_time is read and subtracted after it
mouse_timestamp_t0 ==
    /\ mth.pc = "t0"
    /\ mth' = [mth EXCEPT !.pc = IF mth.cb = "move" THEN "L307" ELSE "append",
                          !.now = 0, !.timestamp = mth.now - start_time[1]]
    /\ UNCHANGED <<fields, env, store, ctl, kth, hist>>
    /\ UNCHANGED replay

\* line 307: if self.last_mouse_position:
on_mouse_move_307 ==
    /\ mth.pc = "L307"
    /\ mth' = [mth EXCEPT !.pc = IF last_mouse_position # None THEN "L308"
                                 ELSE "L320"]
    /\ UNCHANGED <<fields, env, store, ctl, kth, hist>>
    /\ UNCHANGED replay

\* Variant of on_mouse_move_308 without the test "if dx != 0 or dy != 0".
on_mouse_move_308_always ==
    /\ mth.pc = "L308"
    /\ mth' = IF last_mouse_position = None
              THEN [MthIdle EXCEPT !.pc = "crashed"]
              ELSE [mth EXCEPT !.pc = "L318",
                               !.dx = mth.arg.pos[1] - last_mouse_position[1],
                               !.dy = mth.arg.pos[2] - last_mouse_position[2]]
    /\ UNCHANGED <<fields, env, store, ctl, kth, hist>>
    /\ UNCHANGED replay

\* lines 308-311: dx, dy from self.last_mouse_position, read again (a None
\* stored since line 307 raises TypeError and ends the listener thread);
\* if dx != 0 or dy != 0
on_mouse_move_308 ==
    /\ mth.pc = "L308"
    /\ mth' = IF last_mouse_position = None
              THEN [MthIdle EXCEPT !.pc = "crashed"]
              ELSE LET dx == mth.arg.pos[1] - last_mouse_position[1]
                       dy == mth.arg.pos[2] - last_mouse_position[2]
                   IN  [mth EXCEPT !.pc = IF dx # 0 \/ dy # 0 THEN "L318"
                                          ELSE "L320",
                                   !.dx = dx, !.dy = dy]
    /\ UNCHANGED <<fields, env, store, ctl, kth, hist>>
    /\ UNCHANGED replay

\* lines 312-318: self.mouse_events.append(MouseEvent("move_relative", ...))
on_mouse_move_318 ==
    /\ mth.pc = "L318"
    /\ mouse_events' = Append(mouse_events,
            MouseEvent("move_relative", None, None, Some(mth.dx), Some(mth.dy),
                       mth.timestamp))
    /\ mth' = [mth EXCEPT !.pc = "L320", !.dx = 0, !.dy = 0, !.timestamp = 0]
    /\ UNCHANGED <<recording, keyboard_events, start_time, filename,
                   last_mouse_position, total_duration, env, store, ctl, kth, hist>>
    /\ UNCHANGED replay

\* Variant of on_mouse_move_320 that stores the position only when there is
\* no baseline yet.
on_mouse_move_320_first_only ==
    /\ mth.pc = "L320"
    /\ last_mouse_position' = IF last_mouse_position = None THEN mth.arg.pos
                              ELSE last_mouse_position
    /\ mth' = MthIdle
    /\ UNCHANGED <<recording, mouse_events, keyboard_events, start_time,
                   filename, total_duration, env, store, ctl, kth, hist>>
    /\ UNCHANGED replay

\* line 320: self.last_mouse_position = (x, y)
on_mouse_move_320 ==
    /\ mth.pc = "L320"
    /\ last_mouse_position' = mth.arg.pos
    /\ mth' = MthIdle
    /\ UNCHANGED <<recording, mouse_events, keyboard_events, start_time,
                   filename, total_duration, env, store, ctl, kth, hist>>
    /\ UNCHANGED replay

\* lines 326-332 and 338-344: the click or scroll event is appended
on_mouse_click_scroll_append ==
    /\ mth.pc = "append"
    /\ mouse_events' = Append(mouse_events,
            IF mth.cb = "click"
            THEN MouseEvent("click", mth.arg.button, mth.arg.pressed, None, None,
                            mth.timestamp)
            ELSE MouseEvent("scroll", None, None, mth.arg.dx, mth.arg.dy,
                            mth.timestamp))
    /\ mth' = MthIdle
    /\ UNCHANGED <<recording, keyboard_events, start_time, filename,
                   last_mouse_position, total_duration, env, store, ctl, kth, hist>>
    /\ UNCHANGED replay

MouseStep ==
    \/ on_mouse_move_302
    \/ on_mouse_click_323
    \/ on_mouse_scroll_335
    \/ mouse_timestamp_clock
    \/ mouse_timestamp_t0
    \/ on_mouse_move_307
    \/ on_mouse_move_308
    \/ on_mouse_move_318
    \/ on_mouse_move_320
    \/ on_mouse_click_scroll_append

\* ------------------------------------------------- keyboard listener thread
\* Variant of IsControlKey that filters F9 only.
IsControlKey_f9_only(key) == key = Key_f9

\* lines 350, 367: if key == Key.f9 or key == Key.f10: return
IsControlKey(key) == key = Key_f9 \/ key = Key_f10

\* lines 347-351 and 364-368: on_key_press(key) / on_key_release(key) is
\* called; the recording guard, then the filter of the two control keys
on_key_347 ==
    /\ kth.pc = "idle"
    /\ hist.delivered < MaxNotifications
    /\ \E key \in Keys, cb \in {"press", "release"} :
         /\ kth' = IF ~recording THEN KthIdle
                   ELSE IF IsControlKey(key) THEN KthIdle
                   ELSE [KthIdle EXCEPT !.pc = "clock", !.cb = cb, !.key = key]
         /\ hist' = [hist EXCEPT !.delivered = @ + 1,
                                 !.filtered = @ \/ (recording /\ IsControlKey(key))]
    /\ UNCHANGED <<fields, env, store, ctl, mth>>
    /\ UNCHANGED replay

\* lines 353, 370: time.perf_counter() is evaluated first ...
key_timestamp_clock ==
    /\ kth.pc = "clock"
    /\ \E now \in Readings :
         /\ clock' = now
         /\ kth' = [kth EXCEPT !.pc = "t0", !.now = now]
    /\ UNCHANGED <<fields, store, ctl, mth, hist>>
    /\ UNCHANGED replay

\* ... and self.start_time is read and subtracted after it
key_timestamp_t0 ==
    /\ kth.pc = "t0"
    /\ kth' = [kth EXCEPT !.pc = "append", !.now = 0,
                          !.timestamp = kth.now - start_time[1]]
    /\ UNCHANGED <<fields, env, store, ctl, mth, hist>>
    /\ UNCHANGED replay

\* lines 354-361 and 371-378: key_str = self._key_to_string(key) and the
\* append of the KeyboardEvent
on_key_append ==
    /\ kth.pc = "append"
    /\ keyboard_events' = Append(keyboard_events,
            KeyboardEvent(kth.cb, _key_to_string(kth.key), kth.cb = "press",
                          kth.timestamp))
    /\ kth' = KthIdle
    /\ UNCHANGED <<recording, mouse_events, start_time, filename,
                   last_mouse_position, total_duration, env, store, ctl, mth, hist>>
    /\ UNCHANGED replay

KeyStep ==
    \/ on_key_347
    \/ key_timestamp_clock
    \/ key_timestamp_t0
    \/ on_key_append

\* ------------------------------------------------------------ specifications
CtlIdleNow == ctl.pc = "idle"
MthIdleNow == mth.pc = "idle"
KthIdleNow == kth.pc = "idle"

\* The listener threads and the control context run concurrently.
Next ==
    \/ CtlStep
    \/ MouseStep
    \/ KeyStep

Spec == Init /\ [][Next]_vars

\* One handler at a time: a context steps only while the other two are
\* between handlers.
NextSeq ==
    \/ (MthIdleNow /\ KthIdleNow /\ CtlStep)
    \/ (CtlIdleNow /\ KthIdleNow /\ MouseStep)
    \/ (CtlIdleNow /\ MthIdleNow /\ KeyStep)

SpecSeq == Init /\ [][NextSeq]_vars

\* ------------------------------------------------- recorder: runs of motion
\* The recorder with handlers run one at a time and pointer motion as the
\* only notification, up to MaxMotions of them.
MaxMotions == 4

MoveStep ==
    \/ on_mouse_move_302_upto(MaxMotions)
    \/ mouse_timestamp_clock
    \/ mouse_timestamp_t0
    \/ on_mouse_move_307
    \/ on_mouse_move_308
    \/ on_mouse_move_318
    \/ on_mouse_move_320

NextMoves ==
    \/ (MthIdleNow /\ CtlStep)
    \/ (CtlIdleNow /\ MoveStep)

SpecMoves == Init /\ [][NextMoves]_vars

\* ------------------------------------------------------------ replay engine
\* LowLevelKeyboardController.scan_codes (lines 152-167)
scan_codes ==
    (<<"s", "h", "i", "f", "t", "_", "l">> :> 42)
    @@ (<<"s", "h", "i", "f", "t", "_", "r">> :> 54)
    @@ (<<"c", "t", "r", "l", "_", "l">> :> 29)
    @@ (<<"c", "t", "r", "l", "_", "r">> :> 29)
    @@ (<<"a", "l", "t", "_", "l">> :> 56)
    @@ (<<"a", "l", "t", "_", "r">> :> 56)
    @@ (<<"a">> :> 30)
    @@ (<<"b">> :> 48)
    @@ (<<"c">> :> 46)
    @@ (<<"d">> :> 32)
    @@ (<<"e">> :> 18)
    @@ (<<"f">> :> 33)
    @@ (<<"g">> :> 34)
    @@ (<<"h">> :> 35)
    @@ (<<"i">> :> 23)
    @@ (<<"j">> :> 36)
    @@ (<<"k">> :> 37)
    @@ (<<"l">> :> 38)
    @@ (<<"m">> :> 50)
    @@ (<<"n">> :> 49)
    @@ (<<"o">> :> 24)
    @@ (<<"p">> :> 25)
    @@ (<<"q">> :> 16)
    @@ (<<"r">> :> 19)
    @@ (<<"s">> :> 31)
    @@ (<<"t">> :> 20)
    @@ (<<"u">> :> 22)
    @@ (<<"v">> :> 47)
    @@ (<<"w">> :> 17)
    @@ (<<"x">> :> 45)
    @@ (<<"y">> :> 21)
    @@ (<<"z">> :> 44)
    @@ (<<"0">> :> 11)
    @@ (<<"1">> :> 2)
    @@ (<<"2">> :> 3)
    @@ (<<"3">> :> 4)
    @@ (<<"4">> :> 5)
    @@ (<<"5">> :> 6)
    @@ (<<"6">> :> 7)
    @@ (<<"7">> :> 8)
    @@ (<<"8">> :> 9)
    @@ (<<"9">> :> 10)
    @@ (<<"s", "p", "a", "c", "e">> :> 57)
    @@ (<<"e", "n", "t", "e", "r">> :> 28)
    @@ (<<"e", "s", "c">> :> 1)
    @@ (<<"t", "a", "b">> :> 15)
    @@ (<<"f", "1">> :> 59)
    @@ (<<"f", "2">> :> 60)
    @@ (<<"f", "3">> :> 61)
    @@ (<<"f", "4">> :> 62)
    @@ (<<"f", "5">> :> 63)
    @@ (<<"f", "6">> :> 64)
    @@ (<<"f", "7">> :> 65)
    @@ (<<"f", "8">> :> 66)
    @@ (<<"f", "9">> :> 67)
    @@ (<<"f", "1", "0">> :> 68)
    @@ (<<"f", "1", "1">> :> 87)
    @@ (<<"f", "1", "2">> :> 88)
    @@ (<<"u", "p">> :> 72)
    @@ (<<"d", "o", "w", "n">> :> 80)
    @@ (<<"l", "e", "f", "t">> :> 75)
    @@ (<<"r", "i", "g", "h", "t">> :> 77)
    @@ (<<"i", "n", "s", "e", "r", "t">> :> 82)
    @@ (<<"d", "e", "l", "e", "t", "e">> :> 83)
    @@ (<<"h", "o", "m", "e">> :> 71)
    @@ (<<"e", "n", "d">> :> 79)
    @@ (<<"p", "a", "g", "e", "_", "u", "p">> :> 73)
    @@ (<<"p", "a", "g", "e", "_", "d", "o", "w", "n">> :> 81)
    @@ (<<"b", "a", "c", "k", "s", "p", "a", "c", "e">> :> 14)
    @@ (<<"c", "a", "p", "s", "_", "l", "o", "c", "k">> :> 58)
    @@ (<<"n", "u", "m", "_", "l", "o", "c", "k">> :> 69)
    @@ (<<"s", "c", "r", "o", "l", "l", "_", "l", "o", "c", "k">> :> 70)

\* str.lower() and str.upper(), character by character
lower_char(c) ==
    IF \E i \in 1..26 : c = UpperLetters[i]
    THEN LowerLetters[CHOOSE i \in 1..26 : c = UpperLetters[i]]
    ELSE IF c = "CYR_A" THEN "cyr_a"
    ELSE IF c = "CYR_F" THEN "cyr_f"
    ELSE c

upper_char(c) ==
    IF \E i \in 1..26 : c = LowerLetters[i]
    THEN UpperLetters[CHOOSE i \in 1..26 : c = LowerLetters[i]]
    ELSE IF c = "cyr_a" THEN "CYR_A"
    ELSE IF c = "cyr_f" THEN "CYR_F"
    ELSE c

lower(str) == [i \in 1..Len(str) |-> lower_char(str[i])]

startswith(str, prefix) ==
    Len(str) >= Len(prefix) /\ SubSeq(str, 1, Len(prefix)) = prefix

\* ord(c) for the characters a one-character key name of the model can have
ord(c) ==
    CASE \E i \in 1..26 : c = UpperLetters[i]
            -> 64 + (CHOOSE i \in 1..26 : c = UpperLetters[i])
      [] \E i \in 1..26 : c = LowerLetters[i]
            -> 96 + (CHOOSE i \in 1..26 : c = LowerLetters[i])
      [] \E i \in 1..10 : c = DigitChars[i]
            -> 47 + (CHOOSE i \in 1..10 : c = DigitChars[i])
      [] c = "CYR_A" -> 1040
      [] c = "CYR_F" -> 1060
      [] c = "cyr_a" -> 1072
      [] c = "cyr_f" -> 1092

\* int(s) for a string of decimal digits; any other string raises ValueError
IsDigits(str) ==
    str # <<>> /\ \A i \in 1..Len(str) : \E d \in 1..10 : str[i] = DigitChars[d]

RECURSIVE StrToInt(_)
StrToInt(str) ==
    LET d == (CHOOSE k \in 1..10 : str[Len(str)] = DigitChars[k]) - 1
    IN  IF Len(str) = 1 THEN d
        ELSE StrToInt(SubSeq(str, 1, Len(str) - 1)) * 10 + d

\* line 215: vk = int(key_str[8:-1]) for a token that starts with "KeyCode(";
\* None when int() raises ValueError
int_of_token(key_str) ==
    LET digits == SubSeq(key_str, 9, Len(key_str) - 1)
    IN  IF IsDigits(digits) THEN Some(StrToInt(digits)) ELSE None

\* user32.MapVirtualKeyA(vk, 0): the scan code of a virtual-key code, 0 when
\* it has none.  Virtual-key codes end at 254; the letter and digit keys have
\* the scan codes that scan_codes lists for them.
MapVirtualKeyA(vk) ==
    CASE 65 <= vk /\ vk <= 90 -> scan_codes[<<chr_lower(vk)>>]
      [] 48 <= vk /\ vk <= 57 -> scan_codes[<<DigitChars[vk - 47]>>]
      [] vk > 254 -> 0

\* LowLevelKeyboardController._get_scan_code (lines 213-229).  The result:
\* scan_code (None or the code), whether the warning of line 228 was printed,
\* and whether int() raised ValueError.
ScanResult(scan_code, warned, raised) ==
    [scan_code |-> scan_code, warned |-> warned, raised |-> raised]

_get_scan_code(key_str) ==
    IF startswith(key_str, s_KeyCodeOpen) THEN
        LET vk == int_of_token(key_str)
        IN  IF vk = None THEN ScanResult(None, FALSE, TRUE)
            ELSE LET scan_code == MapVirtualKeyA(vk[1])
                 IN  ScanResult(IF scan_code # 0 THEN Some(scan_code) ELSE None,
                                FALSE, FALSE)
    ELSE IF lower(key_str) \in DOMAIN scan_codes THEN
        ScanResult(Some(scan_codes[lower(key_str)]), FALSE, FALSE)
    ELSE IF Len(key_str) = 1 THEN
        LET scan_code == MapVirtualKeyA(ord(upper_char(key_str[1])))
        IN  ScanResult(IF scan_code # 0 THEN Some(scan_code) ELSE None,
                       FALSE, FALSE)
    ELSE ScanResult(None, TRUE, FALSE)

\* ------------------------------------------------------------ the replay file
\* A JSON object is a record; a key the object lacks is not in its DOMAIN
\* (reading it raises KeyError).  null is None.
Has(obj, key) == key \in DOMAIN obj

Absent == [kind |-> "absent"]          \* os.path.exists is False
NotJson == [kind |-> "text"]           \* json.load raises JSONDecodeError
Json(data) == [kind |-> "json", data |-> data]

\* Variant of sorted that keeps one event per timestamp, the first.
sorted_one_per_key(events) ==
    LET n == Len(events)
        key(i) == events[i][2].timestamp
        firsts == {i \in 1..n : \A j \in 1..(i - 1) : key(j) # key(i)}
        place(i) == Cardinality({j \in firsts : key(j) < key(i)}) + 1
    IN  SubSeq([r \in 1..Cardinality(firsts) |->
                   events[CHOOSE i \in firsts : place(i) = r]],
               1, Cardinality(firsts))

\* sorted(events, key=lambda x: x[1]['timestamp']): stable, an element goes
\* behind the elements with a smaller key and behind the elements before it
\* with the same key
sorted(events) ==
    LET n == Len(events)
        key(i) == events[i][2].timestamp
        place == SubSeq([i \in 1..n |->
                            Cardinality({j \in 1..n : key(j) < key(i)})
                                + Cardinality({j \in 1..i : key(j) = key(i)})],
                        1, n)
    IN  SubSeq([r \in 1..n |-> events[CHOOSE i \in 1..n : place[i] = r]], 1, n)

Tagged(tag, stream) == [i \in 1..Len(stream) |-> <<tag, stream[i]>>]

LoadResult(raised, events) == [raised |-> raised, events |-> events]

\* Variant of load_replay that collects the key events before the pointer
\* events.
load_replay_keys_first(file) ==
    IF file.kind = "absent" THEN LoadResult("FileNotFoundError", None)
    ELSE IF file.kind = "text" THEN LoadResult("JSONDecodeError", None)
    ELSE IF ~Has(file.data, "mouse_events") THEN LoadResult("KeyError", None)
    ELSE IF ~Has(file.data, "keyboard_events") THEN LoadResult("KeyError", None)
    ELSE LET events == Tagged("keyboard", file.data.keyboard_events)
                       \o Tagged("mouse", file.data.mouse_events)
         IN  IF \E i \in 1..Len(events) : ~Has(events[i][2], "timestamp")
             THEN LoadResult("KeyError", None)
             ELSE IF ~Has(file.data, "total_duration")
             THEN LoadResult("KeyError", Some(sorted(events)))
             ELSE LoadResult("none", Some(sorted(events)))

\* Variant of load_replay without the read of data['total_duration'].
load_replay_lenient(file) ==
    IF file.kind = "absent" THEN LoadResult("FileNotFoundError", None)
    ELSE IF file.kind = "text" THEN LoadResult("JSONDecodeError", None)
    ELSE IF ~Has(file.data, "mouse_events") THEN LoadResult("KeyError", None)
    ELSE IF ~Has(file.data, "keyboard_events") THEN LoadResult("KeyError", None)
    ELSE LET events == Tagged("mouse", file.data.mouse_events)
                       \o Tagged("keyboard", file.data.keyboard_events)
         IN  IF \E i \in 1..Len(events) : ~Has(events[i][2], "timestamp")
             THEN LoadResult("KeyError", None)
             ELSE LoadResult("none", Some(sorted(events)))

\* GameplayPlayer.load_replay (lines 465-488): the exception it raises
\* ("none" when it returns) and the list assigned to self.events at line 480
\* (None when that line is not reached).  Timestamps are numbers.
load_replay(file) ==
    IF file.kind = "absent" THEN LoadResult("FileNotFoundError", None)
    ELSE IF file.kind = "text" THEN LoadResult("JSONDecodeError", None)
    ELSE IF ~Has(file.data, "mouse_events") THEN LoadResult("KeyError", None)
    ELSE IF ~Has(file.data, "keyboard_events") THEN LoadResult("KeyError", None)
    ELSE LET events == Tagged("mouse", file.data.mouse_events)
                       \o Tagged("keyboard", file.data.keyboard_events)
         IN  IF \E i \in 1..Len(events) : ~Has(events[i][2], "timestamp")
             THEN LoadResult("KeyError", None)
             ELSE IF ~Has(file.data, "total_duration")
             THEN LoadResult("KeyError", Some(sorted(events)))
             ELSE LoadResult("none", Some(sorted(events)))

\* ------------------------------------------------------------- SendInput calls
SendInput(fn, dx, dy, button, down, data, scan, flags) ==
    [fn |-> fn, dx |-> dx, dy |-> dy, button |-> button, down |-> down,
     data |-> data, scan |-> scan, flags |-> flags]

\* LowLevelMouseController.move_relative
move_relative(dx, dy) == <<SendInput("MOVE", dx, dy, "", FALSE, 0, 0, 0)>>

\* LowLevelMouseController.click: nothing is sent for a button it does not know
click(button, pressed) ==
    IF button \in {"left", "right", "middle"}
    THEN <<SendInput("BUTTON", 0, 0, button, pressed, 0, 0, 0)>>
    ELSE <<>>

\* LowLevelMouseController.scroll: WHEEL_DELTA = 120; dx is not used
scroll(dx, dy) ==
    IF dy # 0 THEN <<SendInput("WHEEL", 0, 0, "", FALSE, dy * 120, 0, 0)>>
    ELSE <<>>

s_ctrl_r == <<"c", "t", "r", "l", "_", "r">>
s_alt_r == <<"a", "l", "t", "_", "r">>

\* How a call of press_key / release_key ended: the SendInput calls it made,
\* the lines it printed and the exception it raised ("none" when it returned).
KeyOutcome(sent, printed, raised) ==
    [sent |-> sent, printed |-> printed, raised |-> raised]

\* LowLevelKeyboardController.press_key (pressed) / release_key (not pressed)
press_or_release_key(key_str, pressed) ==
    LET r == _get_scan_code(key_str)
        flags == 8 + (IF pressed THEN 0 ELSE 2)
                   + (IF key_str \in {s_ctrl_r, s_alt_r} THEN 1 ELSE 0)
    IN  IF r.raised THEN KeyOutcome(<<>>, <<>>, "ValueError")
        ELSE IF r.scan_code = None
        THEN KeyOutcome(<<>>, IF r.warned THEN <<"unknown key">> ELSE <<>>, "none")
        ELSE KeyOutcome(<<SendInput("KEY", 0, 0, "", pressed, 0, r.scan_code[1], flags)>>,
                        <<>>, "none")

\* ------------------------------------------------------------ event handlers
\* The accumulators and the sensitivity are in tenths.  int() truncates
\* toward zero.
Tenths == 10
int(a) == IF a >= 0 THEN a \div Tenths ELSE -((-a) \div Tenths)
abs(a) == IF a >= 0 THEN a ELSE -a

\* Variant of Axis that keeps no remainder from one event to the next.
Axis_no_carry(acc, d) == [steps |-> int(d), acc |-> 0]

\* Variant of Axis that sends the unit of line 558 at half a unit already.
Axis_round(acc, d) ==
    LET a1 == acc + d
        n1 == int(a1)
        a2 == a1 - n1 * Tenths
        nudge == n1 = 0 /\ abs(a2) >= 5
        n2 == IF nudge THEN (IF a2 > 0 THEN 1 ELSE -1) ELSE n1
        a3 == IF nudge THEN a2 - n2 * Tenths ELSE a2
    IN  [steps |-> n2, acc |-> a3]

\* Variant of Axis that sends the unit of line 558 and keeps the remainder
\* as it was.
Axis_no_discharge(acc, d) ==
    LET a1 == acc + d
        n1 == int(a1)
        a2 == a1 - n1 * Tenths
        nudge == n1 = 0 /\ abs(a2) >= 8
        n2 == IF nudge THEN (IF a2 > 0 THEN 1 ELSE -1) ELSE n1
    IN  [steps |-> n2, acc |-> a2]

\* lines 548-563 for one axis: the whole steps to send and the remainder kept
Axis(acc, d) ==
    LET a1 == acc + d
        n1 == int(a1)
        a2 == a1 - n1 * Tenths
        nudge == n1 = 0 /\ abs(a2) >= 8
        n2 == IF nudge THEN (IF a2 > 0 THEN 1 ELSE -1) ELSE n1
        a3 == IF nudge THEN a2 - n2 * Tenths ELSE a2
    IN  [steps |-> n2, acc |-> a3]

\* How a handler ended: the accumulators, the SendInput calls it made, the
\* lines it printed and the exception that left it ("none" when it returned).
Handled(acc_x, acc_y, sent, printed, raised) ==
    [acc_x |-> acc_x, acc_y |-> acc_y, sent |-> sent, printed |-> printed,
     raised |-> raised]

\* Variant of _handle_mouse_event without the test of line 565.
_handle_mouse_event_always_move(event, acc_x, acc_y, sensitivity) ==
    LET Caught == Handled(acc_x, acc_y, <<>>, <<"mouse error">>, "none")
    IN  IF ~Has(event, "type") THEN Caught
        ELSE IF event.type = "move_relative" THEN
            IF ~Has(event, "dx") \/ ~Has(event, "dy") THEN Caught
            ELSE IF event.dx = None \/ event.dy = None THEN Caught
            ELSE LET x == Axis(acc_x, event.dx[1] * sensitivity)
                     y == Axis(acc_y, event.dy[1] * sensitivity)
                 IN  Handled(x.acc, y.acc,
                             move_relative(x.steps, y.steps),
                             <<>>, "none")
        ELSE IF event.type = "click" THEN
            IF ~Has(event, "button") \/ ~Has(event, "pressed") THEN Caught
            ELSE Handled(acc_x, acc_y,
                         IF event.button = None THEN <<>>
                         ELSE click(event.button[1],
                                    event.pressed # None /\ event.pressed[1]),
                         <<>>, "none")
        ELSE IF event.type = "scroll" THEN
            IF ~Has(event, "dx") \/ ~Has(event, "dy") THEN Caught
            ELSE IF event.dy = None THEN Caught
            ELSE Handled(acc_x, acc_y, scroll(event.dx, event.dy[1]), <<>>, "none")
        ELSE Handled(acc_x, acc_y, <<>>, <<>>, "none")

\* GameplayPlayer._handle_mouse_event (lines 536-573): every exception is
\* caught at line 572 and printed.
_handle_mouse_event(event, acc_x, acc_y, sensitivity) ==
    LET Caught == Handled(acc_x, acc_y, <<>>, <<"mouse error">>, "none")
    IN  IF ~Has(event, "type") THEN Caught
        ELSE IF event.type = "move_relative" THEN
            IF ~Has(event, "dx") \/ ~Has(event, "dy") THEN Caught
            ELSE IF event.dx = None \/ event.dy = None THEN Caught
            ELSE LET x == Axis(acc_x, event.dx[1] * sensitivity)
                     y == Axis(acc_y, event.dy[1] * sensitivity)
                 IN  Handled(x.acc, y.acc,
                             IF x.steps # 0 \/ y.steps # 0
                             THEN move_relative(x.steps, y.steps) ELSE <<>>,
                             <<>>, "none")
        ELSE IF event.type = "click" THEN
            IF ~Has(event, "button") \/ ~Has(event, "pressed") THEN Caught
            ELSE Handled(acc_x, acc_y,
                         IF event.button = None THEN <<>>
                         ELSE click(event.button[1],
                                    event.pressed # None /\ event.pressed[1]),
                         <<>>, "none")
        ELSE IF event.type = "scroll" THEN
            IF ~Has(event, "dx") \/ ~Has(event, "dy") THEN Caught
            ELSE IF event.dy = None THEN Caught
            ELSE Handled(acc_x, acc_y, scroll(event.dx, event.dy[1]), <<>>, "none")
        ELSE Handled(acc_x, acc_y, <<>>, <<>>, "none")

\* GameplayPlayer._handle_keyboard_event (lines 575-582): the except clause
\* formats event['key'] into its message, which raises KeyError out of the
\* handler when the event has no key.
_handle_keyboard_event(event, acc_x, acc_y) ==
    IF ~Has(event, "key")
    THEN Handled(acc_x, acc_y, <<>>, <<>>, "KeyError")
    ELSE IF ~Has(event, "pressed")
    THEN Handled(acc_x, acc_y, <<>>, <<"keyboard error">>, "none")
    ELSE LET r == press_or_release_key(event.key, event.pressed)
         IN  IF r.raised # "none"
             THEN Handled(acc_x, acc_y, <<>>, <<"keyboard error">>, "none")
             ELSE Handled(acc_x, acc_y, r.sent, r.printed, "none")

\* ------------------------------------------------------------ replay inputs
s_a == <<"a">>
s_cyr_a == <<"cyr_a">>
s_unknown_token_zz ==
    <<"u", "n", "k", "n", "o", "w", "n", "_", "t", "o", "k", "e", "n", "_", "z", "z">>

Recording(mouse, keyboard, duration) ==
    Json([mouse_events |-> mouse, keyboard_events |-> keyboard,
          total_duration |-> duration])

\* Equal timestamps inside a stream and across the streams, and a key stream
\* that is not in timestamp order.
DocTies ==
    Recording(<<MouseEvent("move_relative", None, None, Some(1), Some(0), 1),
                MouseEvent("click", Some("left"), Some(TRUE), None, None, 1)>>,
              <<KeyboardEvent("press", s_a, TRUE, 1),
                KeyboardEvent("release", s_a, FALSE, 0)>>, 1)

\* Key names without a scan code: a long one and a one-character one.
DocUnknownKeys ==
    Recording(<<MouseEvent("scroll", None, None, Some(0), Some(1), 1)>>,
              <<KeyboardEvent("press", s_unknown_token_zz, TRUE, 0),
                KeyboardEvent("press", s_cyr_a, TRUE, 0),
                KeyboardEvent("press", s_a, TRUE, 1)>>, 1)

\* Events that lack a field: a motion without dx, a key event without key.
DocMissingFields ==
    Recording(<<[type |-> "move_relative", dy |-> Some(1), timestamp |-> 0],
                MouseEvent("click", Some("left"), Some(FALSE), None, None, 0)>>,
              <<[type |-> "press", pressed |-> TRUE, timestamp |-> 0],
                KeyboardEvent("release", s_a, FALSE, 1)>>, 1)

DocNoMouseEvents == Json([keyboard_events |-> <<>>, total_duration |-> 0])
DocNoKeyboardEvents == Json([mouse_events |-> <<>>, total_duration |-> 0])
DocNoTimestamp ==
    Recording(<<[type |-> "click", button |-> Some("left"),
                 pressed |-> Some(TRUE)]>>, <<>>, 0)
DocNoTotalDuration ==
    Json([mouse_events |-> <<MouseEvent("click", Some("left"), Some(TRUE),
                                        None, None, 0)>>,
          keyboard_events |-> <<>>])

\* Scroll events only (no key events): horizontal, vertical, both.
DocScrolls ==
    Recording(<<MouseEvent("scroll", None, None, Some(1), Some(0), 0),
                MouseEvent("scroll", None, None, Some(0), Some(-1), 0),
                MouseEvent("scroll", None, None, Some(1), Some(1), 1)>>,
              <<>>, 1)

Documents ==
    {Absent, NotJson, DocNoMouseEvents, DocNoKeyboardEvents, DocNoTimestamp,
     DocNoTotalDuration, DocTies, DocUnknownKeys, DocMissingFields, DocScrolls}

Players == {1, 2}
Cooldowns == {0, 1}
Sensitivities == {10}
MaxPlayClock == 2

\* time.perf_counter() as the replay reads it
PlayReadings == clock..MaxPlayClock

\* time.sleep(d) returns when at least d has passed
AfterSleep(d) == (clock + d)..MaxPlayClock

\* A GameplayPlayer (lines 457-463) and the frame of its play() call.  exc is
\* the exception that ended play(); wait is the argument of the sleep of the
\* current iteration (0 without one); handled lists the dispatched events
\* (index in self.events, time since start_time at the dispatch, the sleep
\* before it); stop_at_head is stop_signal as it was at the head of the
\* current iteration; t_call is the clock when play() was called;
\* events_played is the local of that name; progress lists the progress
\* lines printed (events_played, len(self.events)) and completed holds the
\* count of the completion line, once printed.
NewPlayer ==
    [pc |-> "idle", cooldown |-> 0, sensitivity |-> 10, events |-> <<>>,
     acc_x |-> 0, acc_y |-> 0, start_time |-> 0, i |-> 0, wait |-> 0,
     exc |-> "none", handled |-> <<>>, stop_at_head |-> FALSE,
     t_call |-> 0, events_played |-> 0, progress |-> <<>>, completed |-> None]

recorder == <<fields, store, ctl, mth, kth, hist>>

\* ---------------------------------------------------------------- play()
\* Variant of play_506 that goes on to the replay loop when load_replay
\* raised after line 480.
play_506_ignore_error(p) ==
    /\ players[p].pc = "idle"
    /\ \E cooldown \in Cooldowns, sensitivity \in Sensitivities :
         LET r == load_replay(disk)
             me == [players[p] EXCEPT !.cooldown = cooldown,
                                      !.sensitivity = sensitivity,
                                      !.t_call = clock]
         IN  players' = [players EXCEPT ![p] =
                 IF r.events = None
                 THEN [me EXCEPT !.pc = "raised", !.exc = r.raised]
                 ELSE [me EXCEPT !.pc = "L509", !.events = r.events[1]]]
    /\ UNCHANGED <<recorder, probe, env, disk, port, console, stop_signal>>

\* lines 457-463 and 506-507: the player is constructed and play() called;
\* self.events is empty, so load_replay runs, and what it raises ends play()
play_506(p) ==
    /\ players[p].pc = "idle"
    /\ \E cooldown \in Cooldowns, sensitivity \in Sensitivities :
         LET r == IF players[p].events = <<>> THEN load_replay(disk)
                  ELSE LoadResult("none", None)
             me == [players[p] EXCEPT !.cooldown = cooldown,
                                      !.sensitivity = sensitivity,
                                      !.t_call = clock,
                                      !.events = IF r.events = None THEN @
                                                 ELSE r.events[1]]
         IN  players' = [players EXCEPT ![p] =
                 IF r.raised # "none"
                 THEN [me EXCEPT !.pc = "raised", !.exc = r.raised]
                 ELSE [me EXCEPT !.pc = "L509"]]
    /\ UNCHANGED <<recorder, probe, env, disk, port, console, stop_signal>>

\* Variant of play_509 that goes on without the sleep.
play_509_no_delay(p) ==
    /\ players[p].pc = "L509"
    /\ players' = [players EXCEPT ![p].pc = "L514"]
    /\ UNCHANGED <<recorder, probe, env, disk, port, console, stop_signal>>

\* lines 509-512: time.sleep(self.cooldown) when cooldown > 0
play_509(p) ==
    /\ players[p].pc = "L509"
    /\ IF players[p].cooldown > 0
       THEN \E now \in AfterSleep(players[p].cooldown) : clock' = now
       ELSE UNCHANGED clock
    /\ players' = [players EXCEPT ![p].pc = "L514"]
    /\ UNCHANGED <<recorder, probe, disk, port, console, stop_signal>>

\* line 530: a progress line after every so many handled events
ProgressEvery == 100

\* lines 514-515: start_time = time.perf_counter(); events_played = 0; the
\* loop begins
play_514(p) ==
    /\ players[p].pc = "L514"
    /\ \E now \in PlayReadings :
         /\ clock' = now
         /\ players' = [players EXCEPT ![p].pc = "L517", ![p].start_time = now,
                                       ![p].i = 1, ![p].events_played = 0]
    /\ UNCHANGED <<recorder, probe, disk, port, console, stop_signal>>

\* Variant of play_517 that never sleeps.
play_517_no_sleep(p) ==
    /\ players[p].pc = "L517"
    /\ IF players[p].i > Len(players[p].events)
       THEN /\ players' = [players EXCEPT ![p].pc = "done",
                 ![p].completed = Some(players[p].events_played)]
            /\ UNCHANGED clock
       ELSE \E now \in PlayReadings :
              /\ clock' = now
              /\ players' = [players EXCEPT ![p].pc = "L524", ![p].wait = 0,
                                            ![p].stop_at_head = stop_signal]
    /\ UNCHANGED <<recorder, probe, disk, port, console, stop_signal>>

\* Variant of play_517 that skips an event it is late for.
play_517_catch_up(p) ==
    /\ players[p].pc = "L517"
    /\ IF players[p].i > Len(players[p].events)
       THEN /\ players' = [players EXCEPT ![p].pc = "done",
                 ![p].completed = Some(players[p].events_played)]
            /\ UNCHANGED clock
       ELSE \E now \in PlayReadings :
              LET current_time == now - players[p].start_time
                  target_time == players[p].events[players[p].i][2].timestamp
              IN  /\ clock' = now
                  /\ players' = [players EXCEPT
                        ![p].pc = IF current_time < target_time THEN "L522"
                                  ELSE IF current_time > target_time THEN "L517"
                                  ELSE "L524",
                        ![p].i = IF current_time > target_time THEN @ + 1 ELSE @,
                        ![p].wait = IF current_time < target_time
                                    THEN target_time - current_time ELSE 0,
                        ![p].stop_at_head = stop_signal]
    /\ UNCHANGED <<recorder, probe, disk, port, console, stop_signal>>

\* lines 517-521: the next event of self.events, or the end of the loop
\* and the completion line (534); current_time = time.perf_counter() -
\* start_time against its timestamp
play_517(p) ==
    /\ players[p].pc = "L517"
    /\ IF players[p].i > Len(players[p].events)
       THEN /\ players' = [players EXCEPT ![p].pc = "done",
                 ![p].completed = Some(players[p].events_played)]
            /\ UNCHANGED clock
       ELSE \E now \in PlayReadings :
              LET current_time == now - players[p].start_time
                  target_time == players[p].events[players[p].i][2].timestamp
              IN  /\ clock' = now
                  /\ players' = [players EXCEPT
                        ![p].pc = IF current_time < target_time THEN "L522"
                                  ELSE "L524",
                        ![p].wait = IF current_time < target_time
                                    THEN target_time - current_time ELSE 0,
                        ![p].stop_at_head = stop_signal]
    /\ UNCHANGED <<recorder, probe, disk, port, console, stop_signal>>

\* line 522: time.sleep(target_time - current_time)
play_522(p) ==
    /\ players[p].pc = "L522"
    /\ \E now \in AfterSleep(players[p].wait) : clock' = now
    /\ players' = [players EXCEPT ![p].pc = "L524"]
    /\ UNCHANGED <<recorder, probe, disk, port, console, stop_signal>>

\* The calls and the lines of one handler, each with the player that made it.
By(p, items) == [k \in 1..Len(items) |-> [player |-> p, item |-> items[k]]]

\* Variant of play_524 that counts the events that injected input only.
play_524_count_sent(p) ==
    /\ players[p].pc = "L524"
    /\ LET me == players[p]
           entry == me.events[me.i]
           h == IF entry[1] = "mouse"
                THEN _handle_mouse_event(entry[2], me.acc_x, me.acc_y, me.sensitivity)
                ELSE _handle_keyboard_event(entry[2], me.acc_x, me.acc_y)
           after == [me EXCEPT !.acc_x = h.acc_x, !.acc_y = h.acc_y, !.wait = 0,
                               !.handled = Append(@, [index |-> me.i,
                                   elapsed |-> clock - me.start_time,
                                   slept |-> me.wait])]
           played == me.events_played + (IF h.sent = <<>> THEN 0 ELSE 1)
       IN  /\ port' = port \o By(p, h.sent)
           /\ console' = console \o By(p, h.printed)
           /\ players' = [players EXCEPT ![p] =
                  IF h.raised # "none"
                  THEN [after EXCEPT !.pc = "raised", !.exc = h.raised]
                  ELSE [after EXCEPT !.pc = "L517", !.i = @ + 1,
                          !.events_played = played,
                          !.progress = IF played % ProgressEvery = 0
                                       THEN Append(@, [events_played |-> played,
                                                       total |-> Len(me.events)])
                                       ELSE @]]
    /\ UNCHANGED <<recorder, probe, env, disk, stop_signal>>

\* lines 524-532: the event goes to its handler, events_played counts it
\* and every ProgressEvery-th gets a progress line; an exception that
\* leaves the handler ends play()
play_524(p) ==
    /\ players[p].pc = "L524"
    /\ LET me == players[p]
           entry == me.events[me.i]
           h == IF entry[1] = "mouse"
                THEN _handle_mouse_event(entry[2], me.acc_x, me.acc_y, me.sensitivity)
                ELSE _handle_keyboard_event(entry[2], me.acc_x, me.acc_y)
           after == [me EXCEPT !.acc_x = h.acc_x, !.acc_y = h.acc_y, !.wait = 0,
                               !.handled = Append(@, [index |-> me.i,
                                   elapsed |-> clock - me.start_time,
                                   slept |-> me.wait])]
           played == me.events_played + 1
       IN  /\ port' = port \o By(p, h.sent)
           /\ console' = console \o By(p, h.printed)
           /\ players' = [players EXCEPT ![p] =
                  IF h.raised # "none"
                  THEN [after EXCEPT !.pc = "raised", !.exc = h.raised]
                  ELSE [after EXCEPT !.pc = "L517", !.i = @ + 1,
                          !.events_played = played,
                          !.progress = IF played % ProgressEvery = 0
                                       THEN Append(@, [events_played |-> played,
                                                       total |-> Len(me.events)])
                                       ELSE @]]
    /\ UNCHANGED <<recorder, probe, env, disk, stop_signal>>

\* Somebody asks for the replay to stop.
request_stop ==
    /\ ~stop_signal
    /\ stop_signal' = TRUE
    /\ UNCHANGED <<recorder, probe, env, disk, players, port, console>>

\* ------------------------------------------------- replay: specifications
\* A replay file of any of the kinds, nobody recording, no replay yet.
InitPlay ==
    /\ recording = FALSE
    /\ mouse_events = <<>>
    /\ keyboard_events = <<>>
    /\ start_time = None
    /\ filename = None
    /\ last_mouse_position = None
    /\ total_duration = 0
    /\ clock = 0
    /\ store = <<>>
    /\ ctl = CtlIdle("none")
    /\ mth = MthIdle
    /\ kth = KthIdle
    /\ hist = [delivered |-> 0, sessions |-> 0, observed |-> <<>>,
               filtered |-> FALSE, t0 |-> 0, tstop |-> 0,
               at_stop |-> <<<<>>, <<>>>>]
    /\ disk \in Documents
    /\ players = [p \in Players |-> NewPlayer]
    /\ port = <<>>
    /\ console = <<>>
    /\ stop_signal = FALSE
    /\ probe = <<>>

InProgress(p) == players[p].pc \notin {"idle", "done", "raised"}

\* One replay at a time: play() is called when no other replay is in
\* progress (python replayer.py play <file>, or the overlay's play button
\* pressed after the replay before it has ended).
NextPlay ==
    \/ \E p \in Players : (\A q \in Players : ~InProgress(q)) /\ play_506(p)
    \/ \E p \in Players : play_509(p)
    \/ \E p \in Players : play_514(p)
    \/ \E p \in Players : play_517(p)
    \/ \E p \in Players : play_522(p)
    \/ \E p \in Players : play_524(p)
    \/ request_stop

SpecPlay == InitPlay /\ [][NextPlay]_vars

\* Every play() runs on a thread of its own (threading.Thread(target=
\* player.play)), each with a GameplayPlayer of its own, whatever the other
\* threads are doing.
NextPlayConc ==
    \/ \E p \in Players : play_506(p)
    \/ \E p \in Players : play_509(p)
    \/ \E p \in Players : play_514(p)
    \/ \E p \in Players : play_517(p)
    \/ \E p \in Players : play_522(p)
    \/ \E p \in Players : play_524(p)
    \/ request_stop

SpecPlayConc == InitPlay /\ [][NextPlayConc]_vars

\* BackgroundRecorder.__init__: nothing recorded, nobody recording.
RecorderInit ==
    /\ recording = FALSE
    /\ mouse_events = <<>>
    /\ keyboard_events = <<>>
    /\ start_time = None
    /\ filename = None
    /\ last_mouse_position = None
    /\ total_duration = 0
    /\ store = <<>>
    /\ ctl = CtlIdle("none")
    /\ mth = MthIdle
    /\ kth = KthIdle
    /\ hist = [delivered |-> 0, sessions |-> 0, observed |-> <<>>,
               filtered |-> FALSE, t0 |-> 0, tstop |-> 0,
               at_stop |-> <<<<>>, <<>>>>]

\* ------------------------------------------------- replay: a long recording
\* A recording of more than two hundred events: clicks, a motion without dx
\* (its handler prints an error), a key name without a scan code (skipped)
\* and a key press that is due later than the rest.
MaxClicks == 198
DocLong ==
    Recording([i \in 1..MaxClicks |->
                   MouseEvent("click", Some("left"), Some(i % 2 = 1), None, None, 0)]
                  \o <<[type |-> "move_relative", dy |-> Some(1), timestamp |-> 0]>>,
              <<KeyboardEvent("press", s_unknown_token_zz, TRUE, 0),
                KeyboardEvent("press", s_a, TRUE, 1)>>, 1)

\* One player and the long recording; the replay begins one tick before
\* the end of the modelled time, so that the clock moves once at most
\* during the loop.
InitPlayLong ==
    /\ RecorderInit
    /\ clock = MaxPlayClock - 1
    /\ disk = DocLong
    /\ players = [p \in {1} |-> NewPlayer]
    /\ port = <<>>
    /\ console = <<>>
    /\ stop_signal = FALSE
    /\ probe = <<>>

\* python replayer.py play <file>: one play() call
NextPlayLong ==
    \/ play_506(1)
    \/ play_509(1)
    \/ play_514(1)
    \/ play_517(1)
    \/ play_522(1)
    \/ play_524(1)

SpecPlayLong == InitPlayLong /\ [][NextPlayLong]_vars

\* ------------------------------------------ replay: play() called again
\* One GameplayPlayer, constructed with any start delay and a sensitivity
\* of 0.5 or 1.0, whose play() is called up to MaxCalls times, a call after
\* the one before it has ended.  probe lists the calls: the length of port
\* when the call was made (at) and how the call before it had ended
\* (before, "idle" for the first call).
MaxCalls == 2
AgainSensitivities == {5, 10}

InitPlayAgain ==
    /\ RecorderInit
    /\ clock = 0
    /\ disk \in Documents
    /\ \E cooldown \in Cooldowns, sensitivity \in AgainSensitivities :
         players = [p \in {1} |-> [NewPlayer EXCEPT !.cooldown = cooldown,
                                                    !.sensitivity = sensitivity]]
    /\ port = <<>>
    /\ console = <<>>
    /\ stop_signal = FALSE
    /\ probe = <<>>

\* lines 506-507 of a play() call on a player that exists: load_replay runs
\* when self.events is empty; the object keeps self.events and the
\* accumulators, the locals of play() are new
play_506_again(p) ==
    /\ players[p].pc \in {"idle", "done", "raised"}
    /\ Len(probe) < MaxCalls
    /\ LET r == IF players[p].events = <<>> THEN load_replay(disk)
                ELSE LoadResult("none", None)
           me == [NewPlayer EXCEPT
                     !.cooldown = players[p].cooldown,
                     !.sensitivity = players[p].sensitivity,
                     !.acc_x = players[p].acc_x,
                     !.acc_y = players[p].acc_y,
                     !.t_call = clock,
                     !.events = IF r.events = None THEN players[p].events
                                ELSE r.events[1]]
       IN  players' = [players EXCEPT ![p] =
               IF r.raised # "none"
               THEN [me EXCEPT !.pc = "raised", !.exc = r.raised]
               ELSE [me EXCEPT !.pc = "L509"]]
    /\ probe' = Append(probe, [at |-> Len(port), before |-> players[p].pc])
    /\ UNCHANGED <<recorder, env, disk, port, console, stop_signal>>

NextPlayAgain ==
    \/ play_506_again(1)
    \/ play_509(1)
    \/ play_514(1)
    \/ play_517(1)
    \/ play_522(1)
    \/ play_524(1)

SpecPlayAgain == InitPlayAgain /\ [][NextPlayAgain]_vars

\* ----------------------------------------- _handle_mouse_event on its own
\* Sensitivities in tenths (0.1, 0.5, 1.0, 1.5, 2.5), the recorded deltas of
\* a motion, and the number of motions handed to one player.
MotionSensitivities == {1, 5, 10, 15, 25}
MoveInputs == {<<1, 0>>, <<1, -1>>, <<-2, 3>>}
MaxMoves == 21

\* The sum of a field over a sequence of SendInput calls.
RECURSIVE SumOf(_, _)
SumOf(calls, field) ==
    IF calls = <<>> THEN 0
    ELSE calls[1][field] + SumOf(Tail(calls), field)

\* A player of any sensitivity, with no accumulators yet (lines 544-546);
\* probe counts the motions handled (n), sums their recorded deltas (dx, dy)
\* and the deltas injected (sent_x, sent_y), tells whether every motion so
\* far was (1, 0), and keeps the SendInput calls of the last motion (last).
InitMotion ==
    /\ RecorderInit
    /\ clock = 0
    /\ disk = Absent
    /\ \E sensitivity \in MotionSensitivities :
         players = [p \in {1} |-> [NewPlayer EXCEPT !.sensitivity = sensitivity]]
    /\ port = <<>>
    /\ console = <<>>
    /\ stop_signal = FALSE
    /\ probe = [n |-> 0, dx |-> 0, dy |-> 0, sent_x |-> 0, sent_y |-> 0,
                units |-> TRUE, last |-> <<>>]

\* One call of _handle_mouse_event with a MoveRelative event.
handle_move ==
    /\ probe.n < MaxMoves
    /\ \E d \in MoveInputs :
         LET me == players[1]
             event == MouseEvent("move_relative", None, None, Some(d[1]),
                                 Some(d[2]), 0)
             h == _handle_mouse_event(event, me.acc_x, me.acc_y, me.sensitivity)
         IN  /\ players' = [players EXCEPT ![1].acc_x = h.acc_x,
                                           ![1].acc_y = h.acc_y]
             /\ probe' = [n |-> probe.n + 1,
                          dx |-> probe.dx + d[1], dy |-> probe.dy + d[2],
                          sent_x |-> probe.sent_x + SumOf(h.sent, "dx"),
                          sent_y |-> probe.sent_y + SumOf(h.sent, "dy"),
                          units |-> probe.units /\ d = <<1, 0>>,
                          last |-> h.sent]
    /\ UNCHANGED <<recorder, env, disk, port, console, stop_signal>>

NextMotion == handle_move

SpecMotion == InitMotion /\ [][NextMotion]_vars

\* ------------------------------------------- a saved recording is loaded
\* The recorder with a GameplayPlayer that has not loaded anything yet.
InitRoundTrip ==
    /\ RecorderInit
    /\ clock = 0
    /\ disk = Absent
    /\ players = [p \in {1} |-> NewPlayer]
    /\ port = <<>>
    /\ console = <<>>
    /\ stop_signal = FALSE
    /\ probe = <<>>

\* The file of a name is what was written to it last (open(filepath, 'w')).
OnDisk(k) == \A j \in (k + 1)..Len(store) : store[j].name # store[k].name

\* GameplayPlayer(<a file of routes_out>).load_replay(): the file save_recording
\* wrote is read back
load_saved ==
    /\ disk = Absent
    /\ \E k \in 1..Len(store) :
         /\ OnDisk(k)
         /\ LET r == load_replay(Json(store[k]))
            IN  /\ disk' = Json(store[k])
                /\ players' = [players EXCEPT
                       ![1].events = IF r.events = None THEN @ ELSE r.events[1],
                       ![1].exc = r.raised]
    /\ UNCHANGED <<recorder, probe, env, port, console, stop_signal>>

\* The recorder runs, threads interleaved; then one of its files is loaded.
NextRoundTrip ==
    \/ disk = Absent /\ Next
    \/ load_saved

SpecRoundTrip == InitRoundTrip /\ [][NextRoundTrip]_vars

\* ------------------------------------------------ _key_to_string on its own
\* What pynput can hand to on_key_press / on_key_release: a KeyCode with or
\* without a character (Latin or not, lower or upper case, a digit) and any
\* virtual-key code of a byte, a special key, or None.
KeyChars == {None, Some("a"), Some("A"), Some("cyr_a"), Some("CYR_F"), Some("1")}
KeyVks == 0..255
s_caps_lock == <<"c", "a", "p", "s", "_", "l", "o", "c", "k">>
KeyInputs ==
    {KeyCode(char, Some(vk)) : char \in KeyChars, vk \in KeyVks}
        \cup {Key_f9, Key_f10, Key_shift, Key_ctrl, Key_alt, KeyEnum(s_caps_lock),
              KeyNone}

\* probe holds the key of the last call of _key_to_string and the name it
\* returned.
InitKeys ==
    /\ RecorderInit
    /\ clock = 0
    /\ disk = Absent
    /\ players = <<>>
    /\ port = <<>>
    /\ console = <<>>
    /\ stop_signal = FALSE
    /\ probe = [called |-> FALSE, key |-> KeyNone, name |-> <<>>,
                replayed |-> FALSE, token |-> <<>>, vk |-> None,
                handled |-> Handled(0, 0, <<>>, <<>>, "none")]

\* One call of _key_to_string.
key_to_string_call ==
    /\ ~probe.called
    /\ \E key \in KeyInputs :
         probe' = [probe EXCEPT !.called = TRUE, !.key = key,
                                !.name = _key_to_string(key)]
    /\ UNCHANGED <<recorder, env, disk, players, port, console, stop_signal>>

\* Tokens that a replay file can hold and int() cannot parse.
BadTokens ==
    {s_KeyCodeOpen \o s_None \o <<")">>,
     s_KeyCodeOpen \o <<")">>,
     s_KeyCodeOpen \o <<"1", "a", ")">>}

\* The replay of one key event whose name is a KeyCode( token, the one that
\* _key_to_string returned or one of BadTokens: the int() of line 215 and,
\* when it raises, how _handle_keyboard_event ends (MapVirtualKeyA is not
\* reached then).
token_replay_call ==
    /\ ~probe.replayed
    /\ \E token \in BadTokens \cup
                     {t \in {probe.name} : probe.called /\ startswith(t, s_KeyCodeOpen)} :
         probe' = [probe EXCEPT
                      !.replayed = TRUE,
                      !.token = token,
                      !.vk = int_of_token(token),
                      !.handled =
                          IF int_of_token(token) = None
                          THEN _handle_keyboard_event(
                                   KeyboardEvent("press", token, TRUE, 0), 0, 0)
                          ELSE @]
    /\ UNCHANGED <<recorder, env, disk, players, port, console, stop_signal>>

NextKeys ==
    \/ key_to_string_call
    \/ token_replay_call

SpecKeys == InitKeys /\ [][NextKeys]_vars

\* ------------------------------------------------------ the hotkey listener
\* start_background_recording (lines 414-444): the three listeners run, nothing
\* is being recorded.  Here ctl is the thread of the hotkey listener.
InitHotkeys ==
    /\ RecorderInit
    /\ clock = 0
    /\ disk = Absent
    /\ players = <<>>
    /\ port = <<>>
    /\ console = <<>>
    /\ stop_signal = FALSE
    /\ probe = <<>>

\* A listener that was stopped delivers nothing more.
Stopped(frame) == [frame EXCEPT !.pc = "stopped"]

\* on_hotkey_press(Key.f9), lines 408-409: start_recording() as a whole
\* (lines 251-263)
on_hotkey_press_f9 ==
    /\ ctl.pc = "idle"
    /\ IF recording
       THEN /\ ctl' = CtlIdle("start_recording")
            /\ UNCHANGED <<fields, env, hist>>
       ELSE /\ hist.sessions < MaxSessions
            /\ \E now \in Readings :
                 \E wall \in now..MaxClock :
                   /\ clock' = wall
                   /\ start_time' = Some(now)
                   /\ filename' = Some(WallSecond(wall))
                   /\ hist' = [hist EXCEPT !.t0 = now, !.sessions = @ + 1,
                                           !.observed = <<>>]
            /\ mouse_events' = <<>>
            /\ keyboard_events' = <<>>
            /\ recording' = TRUE
            /\ last_mouse_position' = None
            /\ ctl' = CtlIdle("none")
            /\ UNCHANGED total_duration
    /\ UNCHANGED <<store, mth, kth>>
    /\ UNCHANGED replay

\* on_hotkey_press(Key.f10), lines 410-412: stop_recording() as a whole
\* (lines 265-275, with save_recording), then cleanup() (lines 446-453),
\* which stops the mouse listener, the keyboard listener and the hotkey
\* listener
on_hotkey_press_f10 ==
    /\ ctl.pc = "idle"
    /\ IF ~recording
       THEN UNCHANGED <<recording, total_duration, env, store, hist>>
       ELSE /\ recording' = FALSE
            /\ \E now \in Readings :
                 /\ clock' = now
                 /\ total_duration' = now - start_time[1]
                 /\ hist' = [hist EXCEPT !.tstop = now]
                 /\ store' = Append(store,
                        FileOf(filename[1],
                               [mouse_events |-> mouse_events,
                                keyboard_events |-> keyboard_events,
                                mouse_events_count |-> Len(mouse_events),
                                keyboard_events_count |-> Len(keyboard_events)],
                               now - start_time[1]))
    /\ ctl' = Stopped(CtlIdle("stop_recording"))
    /\ mth' = Stopped(MthIdle)
    /\ kth' = Stopped(KthIdle)
    /\ UNCHANGED <<mouse_events, keyboard_events, start_time, filename,
                   last_mouse_position>>
    /\ UNCHANGED replay

\* One handler at a time: a hotkey is handled while the capture listeners
\* are between callbacks, and a callback runs while the other listener is
\* between callbacks.
NextHotkeys ==
    \/ (mth.pc \in {"idle", "stopped"} /\ kth.pc \in {"idle", "stopped"}
            /\ on_hotkey_press_f9)
    \/ (MthIdleNow /\ KthIdleNow /\ on_hotkey_press_f10)
    \/ (KthIdleNow /\ MouseStep)
    \/ (MthIdleNow /\ KeyStep)

SpecHotkeys == InitHotkeys /\ [][NextHotkeys]_vars

\* ------------------------------------------------------------------ helpers
AllIdle == CtlIdleNow /\ MthIdleNow /\ KthIdleNow

\* A step in which the control context makes a call (the listener threads
\* and the history stand still).
CtlCall == ctl.pc = "idle" /\ mth' = mth /\ kth' = kth /\ hist' = hist

LastFile == store[Len(store)]

IsMove(e) == e.type = "move_relative"

\* The (dx, dy) of the MoveRelative events of a pointer sequence, in order.
Moves(events) ==
    LET sel == SelectSeq(events, IsMove)
    IN  [i \in 1..Len(sel) |-> <<sel[i].dx[1], sel[i].dy[1]>>]

NonZero(d) == d # <<0, 0>>

\* The non-zero differences of consecutive positions of a sequence.
Deltas(obs) ==
    SelectSeq([i \in 1..(Len(obs) - 1) |->
                  <<obs[i + 1][1] - obs[i][1], obs[i + 1][2] - obs[i][2]>>],
              NonZero)

NonDecreasing(events) ==
    /\ \A i \in 1..Len(events) : events[i].timestamp >= 0
    /\ \A i \in 1..(Len(events) - 1) : events[i].timestamp <= events[i + 1].timestamp

\* ------------------------------------------------------------------- claims

\* C1: start_recording() called while Recording changes no field of the
\* recorder and returns at once; stop_recording() called while Idle changes
\* no field, returns at once and writes no file.
C1_NoOpCalls ==
    [][((CtlCall /\ recording /\ ctl'.op = "start_recording")
        \/ (CtlCall /\ ~recording /\ ctl'.op = "stop_recording"))
       => (UNCHANGED <<fields, store>> /\ ctl'.pc = "idle")]_vars

\* A start_recording() has returned at its guard while events were recorded.
C1_Witness ==
    /\ ctl.pc = "idle" /\ ctl.op = "start_recording"
    /\ recording
    /\ mouse_events # <<>>

C3_MutualExclusion ==
    LET InMouse == mth.pc \notin {"idle", "crashed"}
        InKey == kth.pc # "idle"
        InCtl == ctl.pc # "idle"
    IN  /\ ~(InCtl /\ (InMouse \/ InKey))
        /\ ~(InMouse /\ InKey)

\* C4: after stop_recording() has written the file and until the next
\* start_recording(), the in-memory sequences equal the saved ones.
C4_FrozenAtStop ==
    (ctl.pc = "idle" /\ ~recording /\ store # <<>>)
        => /\ mouse_events = LastFile.mouse_events
           /\ keyboard_events = LastFile.keyboard_events

C6_NoZeroDelta ==
    LET Ok(events) == \A i \in 1..Len(events) :
                         IsMove(events[i])
                            => ~(events[i].dx = Some(0) /\ events[i].dy = Some(0))
    IN  /\ Ok(mouse_events)
        /\ \A k \in 1..Len(store) : Ok(store[k].mouse_events)

\* A motion notification with the position of the one before it has been
\* handled.
C6_Witness ==
    /\ MthIdleNow
    /\ \E i \in 1..(Len(hist.observed) - 1) : hist.observed[i] = hist.observed[i + 1]

C8_NoControlKeys ==
    LET Ok(events) == \A i \in 1..Len(events) : events[i].key \notin {s_f9, s_f10}
    IN  /\ Ok(keyboard_events)
        /\ \A k \in 1..Len(store) : Ok(store[k].keyboard_events)

\* A control key was notified while recording, and another key was recorded.
C8_Witness ==
    /\ KthIdleNow
    /\ hist.filtered
    /\ keyboard_events # <<>>

\* C9: in each sequence the timestamps are >= 0 and non-decreasing.
C9_MonotoneTimestamps ==
    /\ NonDecreasing(mouse_events)
    /\ NonDecreasing(keyboard_events)

\* C10: the total_duration of the file written by a stop_recording() is the
\* clock read by that stop_recording() minus the clock read by the
\* start_recording() of the same session.
C10_DurationIsElapsed ==
    (ctl.pc = "idle" /\ ~recording /\ store # <<>>)
        => LastFile.total_duration = hist.tstop - hist.t0

\* A session without events was saved with a duration that is not zero.
C10_Witness ==
    /\ ctl.pc = "idle" /\ ~recording
    /\ store # <<>>
    /\ LastFile.mouse_events = <<>> /\ LastFile.keyboard_events = <<>>
    /\ LastFile.total_duration > 0

IsPrefix(s, t) == Len(s) <= Len(t) /\ SubSeq(t, 1, Len(s)) = s

\* C11: the store changes only when a stop_recording() that found the session
\* Recording writes its file, and then by exactly one file, which holds every
\* event that was in each sequence when recording ended, in the order of
\* insertion, and the duration computed by that stop_recording(); between
\* calls the store holds one file per stopped session; a stop_recording()
\* that finds the session Idle writes nothing.
C11_OneRecordingPerStop ==
    [][/\ store' # store
            => /\ ctl.pc = "L296" /\ ctl.op = "stop_recording"
               /\ Len(store') = Len(store) + 1
               /\ SubSeq(store', 1, Len(store)) = store
               /\ IsPrefix(hist.at_stop[1], store'[Len(store')].mouse_events)
               /\ IsPrefix(hist.at_stop[2], store'[Len(store')].keyboard_events)
               /\ store'[Len(store')].total_duration = hist.tstop - hist.t0
       /\ ctl.pc = "idle"
            => Len(store) = hist.sessions - (IF recording THEN 1 ELSE 0)
       /\ (CtlCall /\ ~recording /\ ctl'.op = "stop_recording")
            => store' = store /\ ctl'.pc = "idle"]_vars

\* A session that recorded a pointer event and a key event was stopped and
\* its file is in the store.
C11_Witness ==
    /\ ctl.pc = "idle" /\ ~recording
    /\ Len(store) = 1
    /\ Len(store[1].mouse_events) = 1
    /\ Len(store[1].keyboard_events) = 1
    /\ store[1].total_duration = 1

\* ------------------------------------------------------ claims on the replay
\* The file has both streams and a timestamp in every event.
Mergeable(file) ==
    /\ file.kind = "json"
    /\ Has(file.data, "mouse_events") /\ Has(file.data, "keyboard_events")
    /\ \A i \in 1..Len(file.data.mouse_events) :
           Has(file.data.mouse_events[i], "timestamp")
    /\ \A i \in 1..Len(file.data.keyboard_events) :
           Has(file.data.keyboard_events[i], "timestamp")

\* The place of an event in its stream of the file (the events of a stream
\* of the model's files differ from each other).
PlaceIn(file, entry) ==
    LET stream == IF entry[1] = "mouse" THEN file.data.mouse_events
                  ELSE file.data.keyboard_events
    IN  CHOOSE k \in 1..Len(stream) : stream[k] = entry[2]

\* C12: after load_replay, self.events holds every event of the two streams
\* once, in non-decreasing timestamp order; of two events with the same
\* timestamp a pointer event is before a key event, and two events of the
\* same stream are in the order they have in the file.
C12_StableMerge ==
    \A p \in Players :
        (players[p].pc # "idle" /\ Mergeable(disk))
        => LET ev == players[p].events
               ts(i) == ev[i][2].timestamp
           IN  /\ Len(ev) = Len(disk.data.mouse_events)
                              + Len(disk.data.keyboard_events)
               /\ \A i \in 1..Len(ev) :
                    \E k \in 1..Len(ev) :
                       /\ ev[i][1] \in {"mouse", "keyboard"}
                       /\ PlaceIn(disk, ev[i]) = k
               /\ \A i, j \in 1..Len(ev) :
                    i < j =>
                      /\ ts(i) <= ts(j)
                      /\ ts(i) = ts(j)
                           => /\ ~(ev[i][1] = "keyboard" /\ ev[j][1] = "mouse")
                              /\ ev[i][1] = ev[j][1]
                                   => PlaceIn(disk, ev[i]) < PlaceIn(disk, ev[j])

\* A file with equal timestamps inside and across the streams, and a stream
\* out of timestamp order, was loaded and replayed.
C12_Witness ==
    \E p \in Players :
        /\ players[p].pc = "done"
        /\ Len(players[p].events) = 4
        /\ players[p].events[1][1] = "keyboard"
        /\ players[p].events[2][1] = "mouse"
        /\ players[p].events[2][2].timestamp = players[p].events[4][2].timestamp

\* C13: every event was dispatched when the time since the start_time of its
\* play() was at least its timestamp.
C13_NeverAhead ==
    \A p \in Players :
        \A k \in 1..Len(players[p].handled) :
            LET h == players[p].handled[k]
            IN  h.elapsed >= players[p].events[h.index][2].timestamp

\* An event was dispatched after the loop slept for it.
C13_Witness ==
    \E p \in Players :
        \E k \in 1..Len(players[p].handled) :
            /\ players[p].handled[k].slept > 0
            /\ players[p].events[players[p].handled[k].index][2].timestamp = 1

\* C14: the events dispatched so far are the first events of self.events,
\* each once and in order; a play() that has returned dispatched them all;
\* the loop sleeps only for an event that is not yet due.
C14_NoCatchUp ==
    [][\A p \in Players :
          /\ \A k \in 1..Len(players[p].handled) : players[p].handled[k].index = k
          /\ players[p].pc = "done"
                => Len(players[p].handled) = Len(players[p].events)
          /\ (players[p].pc = "L517" /\ players'[p].pc = "L522")
                => clock' - players[p].start_time
                      < players[p].events[players[p].i][2].timestamp
          /\ (players[p].pc = "L517" /\ players'[p].pc = "L524")
                => /\ clock' - players[p].start_time
                        >= players[p].events[players[p].i][2].timestamp
                   /\ players'[p].wait = 0]_vars

\* A play() has returned after dispatching, without a sleep, an event it was
\* late for.
C14_Witness ==
    \E p \in Players :
        /\ players[p].pc = "done"
        /\ Len(players[p].handled) >= 3
        /\ \E k \in 1..Len(players[p].handled) :
              /\ players[p].handled[k].slept = 0
              /\ players[p].handled[k].elapsed
                    > players[p].events[k][2].timestamp

\* C15: play() is never ended by an exception once the replay loop has
\* begun: whatever a handler meets, the next event is dispatched.
C15_HandlerErrorsContained ==
    \A p \in Players : players[p].pc = "raised" => players[p].handled = <<>>

\* The key events of a player's timeline whose name has no scan code.
UnresolvedKeys(p) ==
    {i \in 1..Len(players[p].events) :
        LET entry == players[p].events[i]
        IN  /\ entry[1] = "keyboard"
            /\ Has(entry[2], "key") /\ Has(entry[2], "pressed")
            /\ ~_get_scan_code(entry[2].key).raised
            /\ _get_scan_code(entry[2].key).scan_code = None}

Warnings(p) ==
    {k \in 1..Len(console) :
        console[k].player = p /\ console[k].item = "unknown key"}

\* C16: when a play() has returned, it has printed one unknown-key warning
\* for each key event whose name has no scan code.
C16_UnresolvedKeyWarned ==
    \A p \in Players :
        players[p].pc = "done"
            => Cardinality(Warnings(p)) = Cardinality(UnresolvedKeys(p))

\* C17: when load_replay fails on the file, nothing is ever sent to the
\* injection port.
C17_NoInjectionAfterLoadFailure ==
    load_replay(disk).raised # "none" => port = <<>>

\* A play() was ended by load_replay after self.events had been assigned,
\* and nothing was sent.
C17_Witness ==
    \E p \in Players :
        /\ players[p].pc = "raised"
        /\ players[p].events # <<>>
        /\ port = <<>>

\* C18: a play() on a file that does not exist is ended by FileNotFoundError
\* before the loop; a play() on a file that is not JSON or lacks mouse_events,
\* keyboard_events, the timestamp of an event or total_duration is ended
\* before the loop by another exception.
C18_LoadFailures ==
    \A p \in Players :
        players[p].pc # "idle"
        => /\ disk.kind = "absent"
                => /\ players[p].pc = "raised" /\ players[p].i = 0
                   /\ players[p].exc = "FileNotFoundError"
           /\ (\/ disk.kind = "text"
               \/ (disk.kind = "json"
                   /\ (~Mergeable(disk) \/ ~Has(disk.data, "total_duration"))))
                => /\ players[p].pc = "raised" /\ players[p].i = 0
                   /\ players[p].exc \notin {"none", "FileNotFoundError"}

\* A play() was ended by the KeyError of an event without timestamp.
C18_Witness ==
    \E p \in Players :
        /\ players[p].pc = "raised"
        /\ players[p].exc = "KeyError"
        /\ disk.kind = "json" /\ Has(disk.data, "mouse_events")
        /\ disk.data.mouse_events # <<>>
        /\ ~Has(disk.data.mouse_events[1], "timestamp")

\* C19: the calls reaching the injection port are never those of one replay,
\* then of another, then of the first again.
C19_NoInterleaving ==
    \A i, j, k \in 1..Len(port) :
        (i < j /\ j < k /\ port[i].player = port[k].player)
            => port[j].player = port[i].player

\* C20: an event whose iteration began after the stop request is not
\* dispatched.
C20_StopHonoured ==
    [][\A p \in Players :
          (players[p].stop_at_head /\ players[p].pc = "L524")
              => players'[p].handled = players[p].handled]_vars

\* ---------------------------------------------------------------------- C21
\* What the start delay of one play() call has kept so far: the player has
\* injected nothing before the loop began; start_time was read no earlier
\* than cooldown after the call; and each dispatched event was dispatched
\* no earlier than cooldown + its timestamp after the call.
StartDelayKept(p) ==
    LET me == players[p]
    IN  /\ me.pc \in {"idle", "L509", "L514"} =>
              \A k \in 1..Len(port) : port[k].player # p
        /\ me.pc \in {"L517", "L522", "L524", "done"} \/ me.handled # <<>> =>
              me.start_time - me.t_call >= me.cooldown
        /\ \A k \in 1..Len(me.handled) :
              me.start_time + me.handled[k].elapsed - me.t_call
                  >= me.cooldown + me.events[me.handled[k].index][2].timestamp

\* C21: with a start delay above zero play() injects nothing during the
\* delay and reads the replay start time after it, so that an event with
\* timestamp t is dispatched no earlier than startDelay + t after the call;
\* with a start delay of zero the step from line 509 to line 514 takes no
\* time (there is no pre-roll sleep).
C21_StartDelay ==
    [][\A p \in Players :
         /\ StartDelayKept(p)'
         /\ players[p].pc = "L509" /\ players'[p].pc = "L514"
              /\ players[p].cooldown = 0 => clock' = clock]_vars

\* A player with a start delay of 1 has dispatched an event with timestamp 1
\* and injected input.
C21_Witness ==
    \E p \in Players :
        /\ players[p].cooldown = 1
        /\ \E k \in 1..Len(players[p].handled) :
              players[p].events[players[p].handled[k].index][2].timestamp = 1
        /\ \E k \in 1..Len(port) : port[k].player = p

\* ---------------------------------------------------------------------- C22
\* C22: with sensitivity 0.1 and MoveRelative events that all have dx = 1,
\* motion is injected in the end (by the tenth event at the latest), and
\* after n >= 20 such events the injected x-motion is within 1 of 0.1 * n.
C22_AntiStall ==
    players[1].sensitivity = 1 /\ probe.units =>
        /\ probe.n >= 10 => probe.sent_x >= 1
        /\ probe.n >= 20 => abs(Tenths * probe.sent_x - probe.n) <= Tenths

\* Twenty events with dx = 1 were handled at sensitivity 0.1 and motion was
\* injected.
C22_Witness ==
    /\ players[1].sensitivity = 1
    /\ probe.units
    /\ probe.n >= 20
    /\ probe.sent_x >= 1

\* ---------------------------------------------------------------------- C29
\* One axis of one handled motion, in tenths: from the remainder acc and the
\* scaled delta d to the units sent and the remainder acc2.  What is sent
\* is subtracted; below 0.8 nothing is sent; from 0.8 up to 1 exactly one
\* unit with the sign of the sum is sent; from 1 up the sum is truncated
\* toward zero.
CarryStep(acc, d, sent, acc2) ==
    LET a1 == acc + d
        size == IF a1 >= 0 THEN a1 ELSE -a1
    IN  /\ sent * Tenths + acc2 = a1
        /\ size < 8 => sent = 0
        /\ size >= 8 /\ size < Tenths => sent = (IF a1 > 0 THEN 1 ELSE -1)
        /\ size >= Tenths => /\ acc2 < Tenths /\ -acc2 < Tenths
                              /\ a1 * acc2 >= 0

\* C29: every handled MoveRelative adds delta * sensitivity to the
\* remainder of its axis, sends the sum truncated toward zero and subtracts
\* what it sent; when the truncation is zero and the remainder is at least
\* 0.8 in size, one unit with the sign of the remainder is sent and
\* subtracted.  Each axis is computed from its own remainder and delta.
C29_CarryAccumulator ==
    [][probe'.n = probe.n + 1 =>
         /\ CarryStep(players[1].acc_x,
                      players[1].sensitivity * (probe'.dx - probe.dx),
                      probe'.sent_x - probe.sent_x, players'[1].acc_x)
         /\ CarryStep(players[1].acc_y,
                      players[1].sensitivity * (probe'.dy - probe.dy),
                      probe'.sent_y - probe.sent_y, players'[1].acc_y)]_vars

\* At sensitivity 0.1 the eighth motion of (1, 0) has brought the remainder
\* to 0.8: one unit was sent and the remainder is -0.2.
C29_Witness ==
    /\ players[1].sensitivity = 1
    /\ probe.units
    /\ probe.n = 8
    /\ probe.sent_x = 1
    /\ players[1].acc_x = -2

IsMouseEntry(entry) == entry[1] = "mouse"
IsKeyboardEntry(entry) == entry[1] = "keyboard"
Held(IsOfStream(_)) ==
    LET sel == SelectSeq(players[1].events, IsOfStream)
    IN  [i \in 1..Len(sel) |-> sel[i][2]]

\* C23: a recording that was saved and loaded is the recording that was
\* saved: the loaded pointer sequence and key sequence are the saved ones,
\* event for event and in the saved order (so that saving it again would
\* write the same sequences and counts).
C23_RoundTrip ==
    disk # Absent =>
        /\ players[1].exc = "none"
        /\ Held(IsMouseEntry) = disk.data.mouse_events
        /\ Held(IsKeyboardEntry) = disk.data.keyboard_events

\* ---------------------------------------------------------------------- C24
\* C24: an alphabetic key with a virtual-key code in 192..255 gets the name
\* of a Latin letter key, one that a code in 65..90 gets too.
C24_LayoutPortable ==
    /\ probe.called
    /\ probe.key.cls = "KeyCode"
    /\ probe.key.char # None
    /\ isalpha(probe.key.char[1])
    /\ probe.key.vk[1] \in 192..255
    => \E vk \in 65..90 :
          probe.name = _key_to_string(KeyCode(Some(UpperLetters[vk - 64]), Some(vk)))

\* ---------------------------------------------------------------------- C25
IsUpper(c) == (\E i \in 1..26 : c = UpperLetters[i]) \/ c \in CyrUpper

\* C25: the name _key_to_string gives a key is canonical: a name without
\* an uppercase letter, or the token KeyCode(<vk>).
C25_CanonicalNames ==
    probe.called =>
        \/ \A i \in 1..Len(probe.name) : ~IsUpper(probe.name[i])
        \/ \E vk \in KeyVks : probe.name = FallbackToken(vk)

\* ---------------------------------------------------------------------- C26
\* C26: the hotkeys keep the session re-entrant: whatever F9 and F10 presses
\* came before (an F10 while idle, an F10 that ended a recording), the
\* hotkey listener and the two capture listeners are running, so that an F9
\* pressed while idle starts a recording whose notifications are captured.
C26_HotkeysReEntrant ==
    /\ ctl.pc # "stopped"
    /\ mth.pc # "stopped"
    /\ kth.pc # "stopped"

\* ---------------------------------------------------------------------- C27
\* C27: every session is stored under a filename of its own: no write to
\* routes_out goes to the file of an earlier session.
C27_FreshFilenames ==
    \A i \in 1..Len(store) : \A j \in 1..Len(store) :
        i < j => store[i].name # store[j].name

\* ---------------------------------------------------------------------- C28
\* C28: a progress line is printed after every ProgressEvery-th handled
\* event and tells the events handled so far and the total number of events;
\* the completion line tells a count equal to the number of events of the
\* merged timeline, the events whose handler failed or skipped them
\* included.
C28_ProgressAndCompletion ==
    \A p \in DOMAIN players :
        LET me == players[p]
        IN  /\ me.progress =
                  [k \in 1..(Len(me.handled) \div ProgressEvery) |->
                      [events_played |-> k * ProgressEvery,
                       total |-> Len(me.events)]]
            /\ me.pc = "done" => me.completed # None
            /\ me.completed # None => me.completed[1] = Len(me.events)

\* A replay of more than two hundred events, some of them failed or skipped,
\* has printed two progress lines and its completion line.
C28_Witness ==
    \E p \in DOMAIN players :
        /\ Len(players[p].events) > 2 * ProgressEvery
        /\ Len(players[p].progress) = 2
        /\ players[p].completed # None
        /\ \E k \in 1..Len(console) : console[k].player = p

\* ---------------------------------------------------------------------- C31
\* C31: a handled MoveRelative calls move_relative once at most; it calls
\* it exactly when the units taken out of the two remainders are not both
\* zero, with those units as arguments, and so never with (0, 0).
C31_MoveOnlyIfMotion ==
    [][probe'.n = probe.n + 1 =>
         LET me == players[1]
             ux == (me.acc_x + me.sensitivity * (probe'.dx - probe.dx)
                        - players'[1].acc_x) \div Tenths
             uy == (me.acc_y + me.sensitivity * (probe'.dy - probe.dy)
                        - players'[1].acc_y) \div Tenths
             calls == probe'.last
         IN  /\ Len(calls) <= 1
             /\ (calls # <<>>) = (ux # 0 \/ uy # 0)
             /\ \A k \in 1..Len(calls) :
                   /\ calls[k].fn = "MOVE"
                   /\ calls[k].dx = ux /\ calls[k].dy = uy
                   /\ ~(calls[k].dx = 0 /\ calls[k].dy = 0)]_vars

\* Of the motions handled, an earlier one was injected and the last one
\* made no call (both axes gave zero).
C31_Witness ==
    /\ probe.n >= 2
    /\ probe.sent_x # 0
    /\ probe.last = <<>>

\* ---------------------------------------------------------------------- C32
\* How often an entry occurs in a sequence.
Count(entry, seq) == Cardinality({i \in 1..Len(seq) : seq[i] = entry})

\* C32: the timeline load_replay builds holds every pointer event and every
\* key event of the file as often as the file does, and nothing else, and
\* its timestamps never decrease; also when the streams overlap in time or
\* one of them is empty.
C32_MergeIsPermutation ==
    \A p \in Players :
        (players[p].pc # "idle" /\ Mergeable(disk))
        => LET ev == players[p].events
               all == Tagged("mouse", disk.data.mouse_events)
                          \o Tagged("keyboard", disk.data.keyboard_events)
           IN  /\ \A i \in 1..Len(all) : Count(all[i], ev) = Count(all[i], all)
               /\ \A i \in 1..Len(ev) : Count(ev[i], all) = Count(ev[i], ev)
               /\ \A i \in 1..(Len(ev) - 1) :
                     ev[i][2].timestamp <= ev[i + 1][2].timestamp

\* A file whose key stream is empty and whose pointer stream has two
\* events with the same timestamp was loaded.
C32_Witness ==
    \E p \in Players :
        /\ players[p].pc # "idle"
        /\ Mergeable(disk)
        /\ disk.data.keyboard_events = <<>>
        /\ Len(players[p].events) = 3
        /\ players[p].events[1][2].timestamp = players[p].events[2][2].timestamp

\* ---------------------------------------------------------------------- C40
IsScrollEntry(entry) == entry[1] = "mouse" /\ entry[2].type = "scroll"
IsWheelCall(call) == call.item.fn = "WHEEL"

\* C40: a replay that has handled all its events has made one wheel
\* injection for every Scroll event of its timeline, in order, each with
\* the recorded amount of its event, whatever dx and dy are.
C40_EveryScrollInjected ==
    \A p \in Players :
        players[p].pc = "done"
        => LET scrolls == SelectSeq(players[p].events, IsScrollEntry)
               mine(call) == call.player = p /\ IsWheelCall(call)
               wheels == SelectSeq(port, mine)
           IN  /\ Len(wheels) = Len(scrolls)
               /\ \A k \in 1..Len(wheels) :
                     wheels[k].item.data = scrolls[k][2].dy[1] * 120

\* ---------------------------------------------------------------------- C33
\* C33: with a file that load_replay raises on, the player has no timeline
\* after a play() call, and no play() call on it, the first or a later one,
\* injects anything.
C33_FailedLoadLeavesNothing ==
    \A p \in DOMAIN players :
        load_replay(disk).raised # "none" =>
            /\ players[p].events = <<>>
            /\ \A k \in 1..Len(port) : port[k].player # p

\* ---------------------------------------------------------------------- C34
\* The SendInput calls of the k-th play() call, and whether that call ran
\* to its completion line.
CallsOf(k) ==
    LET from == probe[k].at
        to == IF k < Len(probe) THEN probe[k + 1].at ELSE Len(port)
    IN  [i \in 1..(to - from) |-> port[from + i].item]
Completed(k) ==
    IF k < Len(probe) THEN probe[k + 1].before = "done"
    ELSE players[1].pc = "done"

\* C34: two play() calls on the same player, one after the other, that both
\* ran to completion have made the same sequence of SendInput calls.
C34_SameCallsEveryReplay ==
    \A k \in 1..(Len(probe) - 1) :
        Completed(k) /\ Completed(k + 1) => CallsOf(k) = CallsOf(k + 1)

\* ---------------------------------------------------------------------- C35
\* C35: a play() call that has loaded its recording and has ended has ended
\* at its completion line, after handling every event of the timeline once
\* and in order, the last one included; with no event it completes with
\* count 0.
C35_EndsAfterLastEvent ==
    \A p \in Players :
        LET me == players[p]
            ended == me.pc \in {"done", "raised"}
            load_failed == me.pc = "raised" /\ me.handled = <<>>
        IN  (ended /\ ~load_failed) =>
                /\ me.pc = "done"
                /\ Len(me.handled) = Len(me.events)
                /\ \A k \in 1..Len(me.handled) : me.handled[k].index = k
                /\ me.completed = Some(Len(me.events))

\* ---------------------------------------------------------------------- C36
\* C36: during a second or later session, under every interleaving of the
\* motion callback with start_recording, the first MoveRelative of the
\* session is the difference of two positions notified to that session, the
\* later minus the earlier.
C36_FirstDeltaWithinSession ==
    (recording /\ hist.sessions >= 2 /\ Len(Moves(mouse_events)) > 0) =>
        \E i, j \in 1..Len(hist.observed) :
            /\ i < j
            /\ Moves(mouse_events)[1] =
                    <<hist.observed[j][1] - hist.observed[i][1],
                      hist.observed[j][2] - hist.observed[i][2]>>

\* ---------------------------------------------------------------------- C37
\* C37: in every file written, under every interleaving of the callbacks
\* with stop_recording, the two counts of the metadata are the numbers of
\* pointer events and of key events saved in that file.
C37_CountsMatchSaved ==
    \A k \in 1..Len(store) :
        /\ store[k].metadata.mouse_events_count = Len(store[k].mouse_events)
        /\ store[k].metadata.keyboard_events_count = Len(store[k].keyboard_events)

\* ---------------------------------------------------------------------- C38
\* The sum of one coordinate (axis 1: dx, axis 2: dy) over a sequence of
\* deltas.
RECURSIVE Total(_, _)
Total(moves, axis) ==
    IF Len(moves) = 0 THEN 0
    ELSE moves[1][axis] + Total(Tail(moves), axis)

\* C38: with motion notifications handled one at a time, between handlers
\* the sums of dx and of dy over the MoveRelative events of the session are
\* the last position notified to the session minus the first one.
C38_RelativeEncodingLossless ==
    (CtlIdleNow /\ MthIdleNow /\ hist.observed # <<>>) =>
        LET moves == Moves(mouse_events)
            first == hist.observed[1]
            last == hist.observed[Len(hist.observed)]
        IN  /\ Total(moves, 1) = last[1] - first[1]
            /\ Total(moves, 2) = last[2] - first[2]

\* A second session with four motions, one of them without displacement,
\* whose two deltas do not cancel.
C38_Witness ==
    /\ CtlIdleNow /\ MthIdleNow /\ recording
    /\ hist.sessions = 2
    /\ Len(hist.observed) = 4
    /\ Len(Moves(mouse_events)) = 2
    /\ hist.observed[4] # hist.observed[1]

\* ---------------------------------------------------------------------- C39
\* C39: the token KeyCode(<vk>) that _key_to_string gives a key is parsed
\* back by the replay to the virtual-key code of that key; a token that
\* int() cannot parse ends in the handler, with nothing injected and no
\* exception passed on to play().
C39_FallbackTokenRoundTrip ==
    probe.replayed =>
        /\ (probe.called /\ probe.token = probe.name) => probe.vk = probe.key.vk
        /\ probe.vk = None =>
               /\ probe.handled.raised = "none"
               /\ probe.handled.sent = <<>>

\* The token of a letter key of another layout with a code of three digits
\* was parsed back.
C39_Witness ==
    /\ probe.replayed /\ probe.called
    /\ probe.token = probe.name
    /\ probe.key.char # None
    /\ probe.key.vk = Some(240)
    /\ probe.vk = Some(240)

====
